---- MODULE Spec2Model ----
(***************************************************************************)
(* A model of vid_dup_finder: the generic filesystem cache (BaseFsCache,   *)
(* ProcessingFsCache), the file-set projection used by reconciliation, the *)
(* fingerprint distance (TemporalHash), the two search structures          *)
(* (SearchVec, BkTree), VideoDupFinder::find_all, ResolutionThunk and      *)
(* ZoomRange.                                                              *)
(*                                                                         *)
(* The module holds several specifications over one set of variables:      *)
(*   Spec      BaseFsCache used from one thread: insert, remove, save and  *)
(*             re-opening the cache file, every step of a save may fail.   *)
(*   SpecProc  ProcessingFsCache::get_insert / force_reload on one thread  *)
(*             over a source file whose mtime changes.                     *)
(*   SpecConc  BaseFsCache used from several threads, save_inner step by   *)
(*             step on a file system with inodes, with a crash.            *)
(*   SpecRec   ProcessingFsCache::update_from_fs run by a pool of workers. *)
(*   SpecDist  TemporalHash::new and TemporalHash::distance.               *)
(*   SpecSearch SearchVec and BkTree driven by one thread, side by side.   *)
(*   SpecFind  VideoDupFinder::find_all with deterministic_search.         *)
(*   SpecFindPar  VideoDupFinder::find_all on the thread pool.             *)
(*   SpecFindTwice  two calls of find_all with deterministic_search.       *)
(*   SpecRefs  VideoDupFinder::find_with_refs.                             *)
(*   SpecAffirm  MatchGroup::affirmed_noreference.                         *)
(*   SpecShadow  populate_new_and_ref_hashes with nested roots.            *)
(*   SpecRun  a cache-updating run: update_from_fs, save(), exit code.     *)
(*   SpecEntry  DupFinderCache: get_insert and get over the entry variants.*)
(*   SpecFinal  SpecConc without a crash, closed by one save().            *)
(*   SpecCross  the save counter of BaseFsCache under several threads.     *)
(*   SpecFindLive  find_all with either search, under weak fairness.       *)
(*   SpecLut  fingerprints built by new or read back from a cache file.    *)
(*   SpecResolve  ResolutionThunk::resolve on a small filesystem.          *)
(*   SpecZoom  ZoomRange::new, zoom_in and zoom_out.                       *)
(* A variable a specification does not use keeps its initial value.        *)
(***************************************************************************)
EXTENDS Integers, Sequences, FiniteSets, TLC

VARIABLES
    cache,      \* BaseFsCache.cache: the map PathBuf -> MtimeCacheEntry
    count,      \* BaseFsCache.cache_modified_count (AtomicU32)
    threshold,  \* BaseFsCache.cache_save_threshold
    cachePath,  \* BaseFsCache.cache_path
    disk,       \* the directory of the cache file: parent, dirent, idata
    files,      \* the source files the cache is about: path -> [kind, mtime, data]
    last,       \* history: the last call, its arguments and its result
    allOk,      \* history: every call on this cache object returned Ok
    thr,        \* SpecConc / SpecRec: the threads' program counters and locals
    crashed,    \* SpecConc: the process was killed
    hist,       \* SpecConc: every value the in-memory map has had
    rec,        \* SpecRec: the state of update_from_fs
    fp,         \* SpecDist: the fingerprints under test and their distance
    ss          \* SpecSearch / SpecFind / SpecFindPar: search structures, find_all

vars == <<cache, count, threshold, cachePath, disk, files, last, allOk, thr,
          crashed, hist, rec, fp, ss>>

(***************************************************************************)
(* Bounds of the model.                                                    *)
(***************************************************************************)
MaxThreshold == 2
NumInodes == 3
\* Times are counted in ticks, TicksPerSec of them in a second (a SystemTime
\* counts nanoseconds), from the epoch to MaxTime.
TicksPerSec == 2
MaxTime == 6
\* SpecConc: how many calls each thread makes.
MaxOps == 2

(***************************************************************************)
(* Values.                                                                 *)
(***************************************************************************)
\* A path is the sequence of its components.  The files the cache is about:
\* two videos in the directory r, one in its subdirectory r/x, and an image.
FileA == <<"r", "a.mp4">>
FileB == <<"r", "b.mp4">>
FileX == <<"r", "x", "c.mp4">>
FileG == <<"r", "g.PNG">>

\* The keys of the map, in the order the model serializes them (a HashMap
\* iterates in an unspecified but, for one unmodified map, fixed order).
KeySeq == <<FileA, FileB, FileX, FileG>>
AllKeys == {KeySeq[i] : i \in 1..Len(KeySeq)}

\* The keys the calls of Spec and SpecConc are made with.
Keys == {FileA, FileB}

\* MtimeCacheEntry { cache_mtime, value }
MtimeCacheEntry(mtime, value) == [cache_mtime |-> mtime, value |-> value]
NullEntry == MtimeCacheEntry(-1, "null")
BaseItems == {MtimeCacheEntry(0, "v1"), MtimeCacheEntry(0, "v2")}

EmptyMap == [k \in {} |-> NullEntry]

\* HashMap::insert
MapInsert(m, key, item) ==
    [k \in (DOMAIN m) \cup {key} |-> IF k = key THEN item ELSE m[k]]

\* HashMap::remove
MapRemove(m, key) == [k \in (DOMAIN m) \ {key} |-> m[k]]

(***************************************************************************)
(* Paths of the cache file.  A path is a stem and an extension;           *)
(* Path::with_extension replaces the extension.                            *)
(***************************************************************************)
CacheBin == [stem |-> "cache", ext |-> "bin"]
CacheTmp == [stem |-> "cache", ext |-> "tmp"]
CacheFileNames == {CacheBin, CacheTmp}

WithExtension(p, e) == [p EXCEPT !.ext = e]

TempStorePath(path) == WithExtension(path, "tmp")

(***************************************************************************)
(* The directory of the cache file.  dirent maps a name to an inode (0: no *)
(* such file), idata is each inode's content, a sequence of chunks.        *)
(***************************************************************************)
Inodes == 1..NumInodes

NoDisk == [parent |-> FALSE,
           dirent |-> [n \in CacheFileNames |-> 0],
           idata  |-> [i \in Inodes |-> <<>>]]

LenChunk(n) == [t |-> "len", n |-> n, k |-> <<>>, e |-> NullEntry]
EntChunk(k, e) == [t |-> "ent", n |-> 0, k |-> k, e |-> e]
ZeroChunk == [t |-> "zero", n |-> 0, k |-> <<>>, e |-> NullEntry]

\* bincode::serialize_into of the HashMap: its length, then its entries.
Serialize(m) ==
    LET ks == SelectSeq(KeySeq, LAMBDA k : k \in DOMAIN m)
    IN  <<LenChunk(Len(ks))>> \o [i \in 1..Len(ks) |-> EntChunk(ks[i], m[ks[i]])]

\* bincode::deserialize_from: the length, then that many entries; bytes after
\* them are not read.  A zero-filled length reads as 0.
DeserializeOk(c) ==
    /\ Len(c) >= 1
    /\ c[1].t \in {"len", "zero"}
    /\ Len(c) >= 1 + c[1].n
    /\ \A i \in 2..(1 + c[1].n) : c[i].t = "ent"
    /\ \A i, j \in 2..(1 + c[1].n) : c[i].k = c[j].k => i = j

Deserialize(c) ==
    LET ks == {c[i].k : i \in 2..(1 + c[1].n)}
    IN  [k \in ks |-> c[CHOOSE i \in 2..(1 + c[1].n) : c[i].k = k].e]

\* The inodes a name or an open file refers to.
Referenced(d, open) == {d.dirent[n] : n \in CacheFileNames} \cup open

\* The inode a new file gets.
FreeInode(d, open) ==
    CHOOSE i \in Inodes :
        /\ i \notin Referenced(d, open)
        /\ \A j \in Inodes : j \notin Referenced(d, open) => i <= j

\* An inode no name and no open file refers to is gone.
Reclaim(d, open) ==
    [d EXCEPT !.idata = [i \in Inodes |->
        IF i \in Referenced(d, open) THEN d.idata[i] ELSE <<>>]]

\* Path::exists
FsExists(d, p) == d.dirent[p] # 0

\* std::fs::create_dir_all(parent)
FsCreateDirAll(d) == [d EXCEPT !.parent = TRUE]

\* std::fs::File::create: a new empty file, or the existing one truncated.
FsCreate(d, p, open) ==
    IF FsExists(d, p)
    THEN [d EXCEPT !.idata[d.dirent[p]] = <<>>]
    ELSE LET i == FreeInode(d, open)
         IN  [d EXCEPT !.dirent[p] = i, !.idata[i] = <<>>]

\* A write of one chunk at an offset of an open file; the gap a write past
\* the end leaves reads as zeroes.
FsWriteAt(d, ino, off, chunk) ==
    LET old == d.idata[ino]
        n   == IF Len(old) > off THEN Len(old) ELSE off
    IN  [d EXCEPT !.idata[ino] = [i \in 1..n |->
            IF i = off THEN chunk
            ELSE IF i <= Len(old) THEN old[i] ELSE ZeroChunk]]

\* std::fs::rename(from, to): to names from's inode, from is no name any more.
FsRename(d, from, to, open) ==
    IF from = to THEN d
    ELSE Reclaim([d EXCEPT !.dirent[to] = d.dirent[from], !.dirent[from] = 0], open)

\* What a reader of the path finds.
FileAt(d, p) ==
    IF FsExists(d, p) THEN [present |-> TRUE, data |-> d.idata[d.dirent[p]]]
    ELSE [present |-> FALSE, data |-> <<>>]

(***************************************************************************)
(* BaseFsCache, called from one thread.                                    *)
(***************************************************************************)
\* The steps of save_inner that can fail, in the order save_inner takes them.
SaveSteps == <<"create_dir_all", "create", "serialize", "into_inner",
               "sync_all", "rename">>
SaveFailures == {SaveSteps[i] : i \in 1..Len(SaveSteps)}

\* The error each failing step is reported as.
SaveError(step) ==
    IF step = "serialize" THEN "SerializationError" ELSE "CacheFileIoError"

\* save_inner run to its end, or to the step `fail` that fails; `written` is
\* how many chunks the BufWriter had passed to the file when a write failed.
SaveInner(d, path, m, fail, written) ==
    LET temp  == TempStorePath(path)
        d1    == IF ~FsExists(d, path) THEN FsCreateDirAll(d) ELSE d
        d2    == FsCreate(d1, temp, {})
        ino   == d2.dirent[temp]
        bytes == Serialize(m)
        part  == [d2 EXCEPT !.idata[ino] = SubSeq(bytes, 1, written)]
        d3    == [d2 EXCEPT !.idata[ino] = bytes]
        d4    == FsRename(d3, temp, path, {})
    IN  CASE fail = "create_dir_all" -> [res |-> SaveError(fail), disk |-> d]
          [] fail = "create"         -> [res |-> SaveError(fail), disk |-> d1]
          [] fail = "serialize"      -> [res |-> SaveError(fail), disk |-> part]
          [] fail = "into_inner"     -> [res |-> SaveError(fail), disk |-> part]
          [] fail = "sync_all"       -> [res |-> SaveError(fail), disk |-> d3]
          [] fail = "rename"         -> [res |-> SaveError(fail), disk |-> d3]
          [] OTHER                   -> [res |-> "Ok", disk |-> d4]

\* Every way save_inner can end: no step fails, or one does.  create_dir_all
\* is only called when the cache file does not exist.
SaveOutcomes(d, path, m) ==
    {SaveInner(d, path, m, "none", 0)}
    \cup {SaveInner(d, path, m, f, 0) :
            f \in {g \in {"create_dir_all"} : ~FsExists(d, path)}
                  \cup {"create", "sync_all", "rename"}}
    \cup {SaveInner(d, path, m, f, w) :
            f \in {"serialize", "into_inner"}, w \in 0..(Len(Serialize(m)) - 1)}

NoSave(d) == {[res |-> "Ok", disk |-> d]}

\* update_transaction_count_and_save_if_necessary: the test on prev_count.
ThresholdReached_OffByOne(prev_count, save_threshold) ==
    prev_count = save_threshold

ThresholdReached(prev_count, save_threshold) ==
    prev_count = save_threshold - 1

\* AtomicU32::fetch_add(1, Relaxed): the new value.  The counter is reset at
\* the threshold and every run of the model is bounded, so it stays far from
\* 2^32 and never wraps.
FetchAdd(c) == c + 1

\* The counter after update_transaction_count_and_save_if_necessary.
CountAfter(prev_count, save_threshold) ==
    IF ThresholdReached(prev_count, save_threshold) THEN 0 ELSE FetchAdd(prev_count)

\* BaseFsCache::save: save_inner unless the counter is 0.
SaveNeeded_SkipsOne(c) == c > 1

SaveNeeded(c) == c # 0

\* load_cache_from_disk: no file gives the empty map.
LoadCacheFromDisk(d, path) ==
    IF ~FsExists(d, path) THEN [res |-> "Ok", map |-> EmptyMap]
    ELSE IF DeserializeOk(FileAt(d, path).data)
         THEN [res |-> "Ok", map |-> Deserialize(FileAt(d, path).data)]
         ELSE [res |-> "DeserializationError", map |-> EmptyMap]

\* The record of a call: which, on what, how it ended, whether save_inner
\* ran in it and whether the processing function did, and what the call
\* started from: the counter (of a mutation), the map (of a lookup), the
\* file at the cache path (of a call that ran save_inner).
NoFile == [present |-> FALSE, data |-> <<>>]

Call(op, key, res, saved, invoked) ==
    [op |-> op, key |-> key, res |-> res, saved |-> saved, invoked |-> invoked,
     prevCount |-> IF op \in {"insert", "remove", "get_insert"} THEN count ELSE 0,
     prevMap   |-> IF op = "get_insert" THEN cache ELSE EmptyMap,
     prevFinal |-> IF saved THEN FileAt(disk, cachePath) ELSE NoFile]

NoCall ==
    [op |-> "new", key |-> <<>>, res |-> "Ok", saved |-> FALSE, invoked |-> FALSE,
     prevCount |-> 0, prevMap |-> EmptyMap,
     prevFinal |-> NoFile]

Unused == <<>>

\* BaseFsCache::new on a path where no file is.
Init ==
    /\ cache = EmptyMap
    /\ count = 0
    /\ threshold \in 1..MaxThreshold
    /\ cachePath \in CacheFileNames
    /\ disk \in {NoDisk, FsCreateDirAll(NoDisk)}
    /\ files = Unused
    /\ last = NoCall
    /\ allOk = TRUE
    /\ thr = Unused /\ crashed = FALSE /\ hist = {} /\ rec = Unused /\ fp = Unused /\ ss = Unused

\* BaseFsCache::insert
BaseInsert(key, item) ==
    LET save == ThresholdReached(count, threshold)
        m    == MapInsert(cache, key, item)
    IN  \E o \in IF save THEN SaveOutcomes(disk, cachePath, m) ELSE NoSave(disk) :
            /\ cache' = m
            /\ count' = CountAfter(count, threshold)
            /\ disk' = o.disk
            /\ last' = Call("insert", key, o.res, save, FALSE)
            /\ allOk' = (allOk /\ o.res = "Ok")
            /\ UNCHANGED <<threshold, cachePath, files, thr, crashed, hist, rec, fp, ss>>

\* BaseFsCache::remove
BaseRemove(key) ==
    LET save == ThresholdReached(count, threshold)
        m    == MapRemove(cache, key)
    IN  \E o \in IF save THEN SaveOutcomes(disk, cachePath, m) ELSE NoSave(disk) :
            /\ cache' = m
            /\ count' = CountAfter(count, threshold)
            /\ disk' = o.disk
            /\ last' = Call("remove", key, o.res, save, FALSE)
            /\ allOk' = (allOk /\ o.res = "Ok")
            /\ UNCHANGED <<threshold, cachePath, files, thr, crashed, hist, rec, fp, ss>>

\* BaseFsCache::save
BaseSave ==
    LET save == SaveNeeded(count)
    IN  \E o \in IF save THEN SaveOutcomes(disk, cachePath, cache) ELSE NoSave(disk) :
            /\ disk' = o.disk
            /\ last' = Call("save", <<>>, o.res, save, FALSE)
            /\ allOk' = (allOk /\ o.res = "Ok")
            /\ UNCHANGED <<cache, count, threshold, cachePath, files, thr, crashed,
                           hist, rec, fp, ss>>

\* BaseFsCache::new on the same path: a new cache object, loaded from the file.
Reopen ==
    LET r == LoadCacheFromDisk(disk, cachePath)
    IN  /\ r.res = "Ok"
        /\ cache' = r.map
        /\ count' = 0
        /\ last' = Call("open", <<>>, r.res, FALSE, FALSE)
        /\ allOk' = TRUE
        /\ UNCHANGED <<threshold, cachePath, disk, files, thr, crashed, hist, rec, fp, ss>>

\* BaseFsCache::new on the same path fails: the file does not deserialize.
ReopenFails ==
    LET r == LoadCacheFromDisk(disk, cachePath)
    IN  /\ r.res # "Ok"
        /\ last' = Call("open", <<>>, r.res, FALSE, FALSE)
        /\ UNCHANGED <<cache, count, threshold, cachePath, disk, files, allOk, thr,
                       crashed, hist, rec, fp, ss>>

Next ==
    \/ \E k \in Keys, item \in BaseItems : BaseInsert(k, item)
    \/ \E k \in Keys : BaseRemove(k)
    \/ BaseSave
    \/ Reopen
    \/ ReopenFails

Spec == Init /\ [][Next]_vars

(***************************************************************************)
(* ProcessingFsCache, called from one thread, over a source file that is   *)
(* written, touched and deleted between the calls.                         *)
(***************************************************************************)
Times == 0..MaxTime
Data == {"d1"}
ProcKeys == {FileA}

NoSourceFile == [exists |-> FALSE, mtime |-> 0, data |-> "d1"]
SourceFile(t, d) == [exists |-> TRUE, mtime |-> t, data |-> d]

Abs(x) == IF x < 0 THEN -x ELSE x

\* const DURATION_TOLERANCE_SECS
DURATION_TOLERANCE_SECS == 2

\* t.duration_since(UNIX_EPOCH).unwrap_or_default().as_secs(): the whole
\* seconds since the epoch, 0 for a time before it.
AsSecs(t) == IF t < 0 THEN 0 ELSE t \div TicksPerSec

\* val_is_stale: is_stale
ValIsStale_Inclusive(cache_mtime, fs_mtime) ==
    Abs(AsSecs(cache_mtime) - AsSecs(fs_mtime)) >= DURATION_TOLERANCE_SECS

ValIsStale(cache_mtime, fs_mtime) ==
    Abs(AsSecs(cache_mtime) - AsSecs(fs_mtime)) > DURATION_TOLERANCE_SECS

\* fs_mtime: the metadata of a file that does not exist cannot be read.
FsMtimeOk(fs, key) == fs[key].exists
FsMtime(fs, key) == fs[key].mtime

\* processing_fn: a function of the file's content.
ProcessingFn(fs, key) == fs[key].data

\* force_insert: the entry it inserts.
ForcedEntry_Epoch(fs, key, mtime) == MtimeCacheEntry(0, ProcessingFn(fs, key))

ForcedEntry(fs, key, mtime) == MtimeCacheEntry(mtime, ProcessingFn(fs, key))

\* get_insert: whether it inserts.
InsertionRequired(m, fs, key) ==
    \/ key \notin DOMAIN m
    \/ ValIsStale(m[key].cache_mtime, FsMtime(fs, key))

\* The record of a call of ProcessingFsCache.
ProcCall(op, key, res, saved, invoked) ==
    [NoCall EXCEPT !.op = op, !.key = key, !.res = res, !.saved = saved,
                   !.invoked = invoked,
                   !.prevMap = IF op = "get_insert" THEN cache ELSE EmptyMap]

InitProc ==
    /\ cache = EmptyMap
    /\ count = 0
    /\ threshold \in 1..MaxThreshold
    /\ cachePath = CacheBin
    /\ disk = NoDisk
    /\ files \in [ProcKeys -> {NoSourceFile} \cup {SourceFile(t, "d1") : t \in Times}]
    /\ last = NoCall
    /\ allOk = TRUE
    /\ thr = Unused /\ crashed = FALSE /\ hist = {} /\ rec = Unused /\ fp = Unused /\ ss = Unused

\* force_insert, then the get that ends get_insert and force_reload.
ForceInsert(op, key) ==
    LET save == ThresholdReached(count, threshold)
        m    == MapInsert(cache, key, ForcedEntry(files, key, FsMtime(files, key)))
    IN  \E o \in IF save THEN SaveOutcomes(disk, cachePath, m) ELSE NoSave(disk) :
            /\ cache' = m
            /\ count' = CountAfter(count, threshold)
            /\ disk' = o.disk
            /\ last' = ProcCall(op, key, o.res, save, TRUE)
            /\ allOk' = (allOk /\ o.res = "Ok")
            /\ UNCHANGED <<threshold, cachePath, files, thr, crashed, hist, rec, fp, ss>>

\* A call that changes nothing and returns res.
Returns(op, key, res) ==
    /\ last' = ProcCall(op, key, res, FALSE, FALSE)
    /\ allOk' = (allOk /\ res = "Ok")
    /\ UNCHANGED <<cache, count, threshold, cachePath, disk, files, thr, crashed,
                   hist, rec, fp, ss>>

\* ProcessingFsCache::get_insert
GetInsert(key) ==
    IF ~FsMtimeOk(files, key)
    THEN Returns("get_insert", key, "CacheItemIoError")
    ELSE IF InsertionRequired(cache, files, key)
         THEN ForceInsert("get_insert", key)
         ELSE Returns("get_insert", key, "Ok")

\* ProcessingFsCache::force_reload
ForceReload(key) ==
    IF ~FsMtimeOk(files, key)
    THEN Returns("force_reload", key, "CacheItemIoError")
    ELSE ForceInsert("force_reload", key)

\* ProcessingFsCache::remove
ProcRemove(key) ==
    LET save == ThresholdReached(count, threshold)
        m    == MapRemove(cache, key)
    IN  \E o \in IF save THEN SaveOutcomes(disk, cachePath, m) ELSE NoSave(disk) :
            /\ cache' = m
            /\ count' = CountAfter(count, threshold)
            /\ disk' = o.disk
            /\ last' = ProcCall("remove", key, o.res, save, FALSE)
            /\ allOk' = (allOk /\ o.res = "Ok")
            /\ UNCHANGED <<threshold, cachePath, files, thr, crashed, hist, rec, fp, ss>>

\* The file is written or touched: it exists, with a new mtime.
WriteSourceFile(key, t, d) ==
    /\ files[key] # SourceFile(t, d)
    /\ files' = [files EXCEPT ![key] = SourceFile(t, d)]
    /\ last' = ProcCall("write_file", key, "Ok", FALSE, FALSE)
    /\ UNCHANGED <<cache, count, threshold, cachePath, disk, allOk, thr, crashed,
                   hist, rec, fp, ss>>

\* The file is deleted.
DeleteSourceFile(key) ==
    /\ files[key].exists
    /\ files' = [files EXCEPT ![key] = NoSourceFile]
    /\ last' = ProcCall("delete_file", key, "Ok", FALSE, FALSE)
    /\ UNCHANGED <<cache, count, threshold, cachePath, disk, allOk, thr, crashed,
                   hist, rec, fp, ss>>

NextProc ==
    \/ \E k \in ProcKeys : GetInsert(k)
    \/ \E k \in ProcKeys : ForceReload(k)
    \/ \E k \in ProcKeys : ProcRemove(k)
    \/ \E k \in ProcKeys, t \in Times, d \in Data : WriteSourceFile(k, t, d)
    \/ \E k \in ProcKeys : DeleteSourceFile(k)

SpecProc == InitProc /\ [][NextProc]_vars

(***************************************************************************)
(* BaseFsCache, called from several threads.  A step is one access to      *)
(* shared state: an atomic operation on the counter, a section under the   *)
(* write lock, a system call on the cache file's directory.  save_inner    *)
(* holds the read lock from before it serializes until it returns.  The    *)
(* process can be killed between any two steps.                            *)
(***************************************************************************)
Threads == {"t1", "t2"}
ConcItem == MtimeCacheEntry(0, "v1")

IdleThread == [pc |-> "idle", key |-> <<>>, prev |-> 0, fd |-> 0, off |-> 0,
               buf |-> <<>>, ops |-> 0]

\* The threads that hold the read lock of BaseFsCache.cache.
Readers == {t \in Threads : thr[t].pc \in {"sv_write", "sv_rename"}}

\* The inodes the threads other than t have open.
OpenElsewhere(t) == {thr[u].fd : u \in Threads \ {t}} \ {0}

InitConc ==
    /\ cache = EmptyMap
    /\ count = 0
    /\ threshold \in 1..MaxThreshold
    /\ cachePath = CacheBin
    /\ disk = NoDisk
    /\ files = Unused
    /\ last = NoCall
    /\ allOk = TRUE
    /\ thr = [t \in Threads |-> IdleThread]
    /\ crashed = FALSE
    /\ hist = {EmptyMap}
    /\ rec = Unused /\ fp = Unused /\ ss = Unused

CanCall(t) == ~crashed /\ thr[t].pc = "idle" /\ thr[t].ops < MaxOps
Running(t, pc) == ~crashed /\ thr[t].pc = pc

\* The call of thread t returns.
Returned(t) == [IdleThread EXCEPT !.ops = thr[t].ops + 1]

\* insert: cache_modified_count.fetch_add(1, Relaxed)
InsertFetchAdd(t, key) ==
    /\ CanCall(t)
    /\ count' = FetchAdd(count)
    /\ thr' = [thr EXCEPT ![t].pc = "ins_write", ![t].key = key, ![t].prev = count]
    /\ UNCHANGED <<cache, threshold, cachePath, disk, files, last, allOk, crashed,
                   hist, rec, fp, ss>>

\* insert: the section under the write lock
InsertWrite(t) ==
    /\ Running(t, "ins_write")
    /\ Readers = {}
    /\ cache' = MapInsert(cache, thr[t].key, ConcItem)
    /\ hist' = hist \cup {cache'}
    /\ thr' = [thr EXCEPT ![t].pc = "update"]
    /\ UNCHANGED <<count, threshold, cachePath, disk, files, last, allOk, crashed,
                   rec, fp, ss>>

\* remove: the section under the write lock
RemoveWrite(t, key) ==
    /\ CanCall(t)
    /\ Readers = {}
    /\ cache' = MapRemove(cache, key)
    /\ hist' = hist \cup {cache'}
    /\ thr' = [thr EXCEPT ![t].pc = "rem_add", ![t].key = key]
    /\ UNCHANGED <<count, threshold, cachePath, disk, files, last, allOk, crashed,
                   rec, fp, ss>>

\* remove: cache_modified_count.fetch_add(1, Relaxed)
RemoveFetchAdd(t) ==
    /\ Running(t, "rem_add")
    /\ count' = FetchAdd(count)
    /\ thr' = [thr EXCEPT ![t].pc = "update", ![t].prev = count]
    /\ UNCHANGED <<cache, threshold, cachePath, disk, files, last, allOk, crashed,
                   hist, rec, fp, ss>>

\* update_transaction_count_and_save_if_necessary: store(0) and save_inner,
\* or return.
UpdateTransactionCount(t) ==
    /\ Running(t, "update")
    /\ IF ThresholdReached(thr[t].prev, threshold)
       THEN /\ count' = 0
            /\ thr' = [thr EXCEPT ![t].pc = "sv_dir"]
       ELSE /\ count' = count
            /\ thr' = [thr EXCEPT ![t] = Returned(t)]
    /\ UNCHANGED <<cache, threshold, cachePath, disk, files, last, allOk, crashed,
                   hist, rec, fp, ss>>

\* save: cache_modified_count.load(Relaxed), then save_inner or return.
SaveLoadCount(t) ==
    /\ CanCall(t)
    /\ thr' = IF SaveNeeded(count) THEN [thr EXCEPT ![t].pc = "sv_dir"]
              ELSE [thr EXCEPT ![t] = Returned(t)]
    /\ UNCHANGED <<cache, count, threshold, cachePath, disk, files, last, allOk,
                   crashed, hist, rec, fp, ss>>

\* save_inner: create_dir_all unless the cache file exists
SaveCreateDir(t) ==
    /\ Running(t, "sv_dir")
    /\ disk' = IF ~FsExists(disk, cachePath) THEN FsCreateDirAll(disk) ELSE disk
    /\ thr' = [thr EXCEPT ![t].pc = "sv_create"]
    /\ UNCHANGED <<cache, count, threshold, cachePath, files, last, allOk, crashed,
                   hist, rec, fp, ss>>

\* save_inner: File::create(temp_store_path)
SaveCreateTemp(t) ==
    /\ Running(t, "sv_create")
    /\ disk' = FsCreate(disk, TempStorePath(cachePath), OpenElsewhere(t))
    /\ thr' = [thr EXCEPT ![t].pc = "sv_lock",
                          ![t].fd = disk'.dirent[TempStorePath(cachePath)],
                          ![t].off = 0]
    /\ UNCHANGED <<cache, count, threshold, cachePath, files, last, allOk, crashed,
                   hist, rec, fp, ss>>

\* save_inner: self.cache.read(); the map cannot change until it returns.
SaveReadLock(t) ==
    /\ Running(t, "sv_lock")
    /\ thr' = [thr EXCEPT ![t].pc = "sv_write", ![t].buf = Serialize(cache)]
    /\ UNCHANGED <<cache, count, threshold, cachePath, disk, files, last, allOk,
                   crashed, hist, rec, fp, ss>>

\* save_inner: the BufWriter passes the next chunk to the file (when its
\* buffer fills during serialize_into, and in into_inner).
SaveWrite(t) ==
    /\ Running(t, "sv_write")
    /\ disk' = FsWriteAt(disk, thr[t].fd, thr[t].off + 1, thr[t].buf[thr[t].off + 1])
    /\ thr' = [thr EXCEPT ![t].off = thr[t].off + 1,
                          ![t].pc = IF thr[t].off + 1 = Len(thr[t].buf)
                                    THEN "sv_rename" ELSE "sv_write"]
    /\ UNCHANGED <<cache, count, threshold, cachePath, files, last, allOk, crashed,
                   hist, rec, fp, ss>>

\* save_inner: sync_all, rename(temp_store_path, cache_path), return.  The
\* rename fails when another save has renamed the temporary file away.
SaveRename(t) ==
    /\ Running(t, "sv_rename")
    /\ disk' = IF FsExists(disk, TempStorePath(cachePath))
               THEN FsRename(disk, TempStorePath(cachePath), cachePath,
                             OpenElsewhere(t))
               ELSE Reclaim(disk, OpenElsewhere(t))
    /\ thr' = [thr EXCEPT ![t] = Returned(t)]
    /\ UNCHANGED <<cache, count, threshold, cachePath, files, last, allOk, crashed,
                   hist, rec, fp, ss>>

\* The process is killed.
Crash ==
    /\ ~crashed
    /\ crashed' = TRUE
    /\ UNCHANGED <<cache, count, threshold, cachePath, disk, files, last, allOk,
                   thr, hist, rec, fp, ss>>

NextConc ==
    \/ \E t \in Threads, k \in Keys : InsertFetchAdd(t, k)
    \/ \E t \in Threads : InsertWrite(t)
    \/ \E t \in Threads, k \in Keys : RemoveWrite(t, k)
    \/ \E t \in Threads : RemoveFetchAdd(t)
    \/ \E t \in Threads : UpdateTransactionCount(t)
    \/ \E t \in Threads : SaveLoadCount(t)
    \/ \E t \in Threads : SaveCreateDir(t)
    \/ \E t \in Threads : SaveCreateTemp(t)
    \/ \E t \in Threads : SaveReadLock(t)
    \/ \E t \in Threads : SaveWrite(t)
    \/ \E t \in Threads : SaveRename(t)
    \/ Crash

SpecConc == InitConc /\ [][NextConc]_vars

-----------------------------------------------------------------------------
\* SpecRec: ProcessingFsCache::update_from_fs against a FileSet, its per-key
\* removals and per-path get_insert calls run by the workers of a thread pool.

\* Bound: the number of worker threads.
NumWorkers == 2
Workers == 1..NumWorkers

\* The directories: r and r/x exist, m and r/y do not.
DirR == <<"r">>
DirRX == <<"r", "x">>
DirM == <<"m">>
DirRY == <<"r", "y">>
ExistingDirs == {DirR, DirRX}

\* The (source_paths, excl_paths) a FileSet is built with.
FileSets ==
    { [source_paths |-> <<DirR>>, excl_paths |-> <<>>],
      [source_paths |-> <<DirR>>, excl_paths |-> <<DirRX>>],
      [source_paths |-> <<DirR, DirM>>, excl_paths |-> <<>>],
      [source_paths |-> <<DirR>>, excl_paths |-> <<DirRY>>],
      [source_paths |-> <<DirR, DirRX>>, excl_paths |-> <<>>] }

\* Path::exists and Path::is_file
PathExists(fs, p) == p \in ExistingDirs \/ (p \in DOMAIN fs /\ fs[p].exists)
IsFile(fs, p) == p \in DOMAIN fs /\ fs[p].exists

\* Path::extension of the file names of the model, and str::to_lowercase.
Extension(p) ==
    CASE p = FileG -> "PNG"
      [] p \in {FileA, FileB, FileX} -> "mp4"
      [] OTHER -> ""
ToLowercase(e) == IF e = "PNG" THEN "png" ELSE e

\* is_ancestor_of: some ancestor of cand (cand included) is reference.
is_ancestor_of(reference, cand) ==
    /\ Len(reference) <= Len(cand)
    /\ SubSeq(cand, 1, Len(reference)) = reference

any_item_includes(references, cand) ==
    \E i \in 1..Len(references) : is_ancestor_of(references[i], cand)

\* FileSet::includes
Includes(fset, cand) ==
    /\ any_item_includes(fset.source_paths, cand)
    /\ ~any_item_includes(fset.excl_paths, cand)

EXCL_EXTS == {"png", "jpg", "jpeg", "gif", "txt"}

\* FileSet::should_keep
should_keep(fset, fs, p) ==
    /\ IsFile(fs, p)
    /\ ~any_item_includes(fset.excl_paths, p)
    /\ ToLowercase(Extension(p)) \notin EXCL_EXTS

\* enumerate_from_fs_inner: the roots it requires to exist.
RequiredRoots_SourcesOnly(fset) ==
    {fset.source_paths[i] : i \in 1..Len(fset.source_paths)}

RequiredRoots(fset) ==
    {fset.source_paths[i] : i \in 1..Len(fset.source_paths)}
        \cup {fset.excl_paths[i] : i \in 1..Len(fset.excl_paths)}

PathNotFound(fset, fs) == \E p \in RequiredRoots(fset) : ~PathExists(fs, p)

\* enumerate_from_fs_inner: the entries the walk of the source roots keeps.
EnumeratedPaths(fset, fs) ==
    {p \in DOMAIN fs : /\ any_item_includes(fset.source_paths, p)
                       /\ should_keep(fset, fs, p)}

\* update_from_fs: the filter of the removal phase.
Disappeared_Unprojected(fset, fs, key) == ~PathExists(fs, key)

Disappeared(fset, fs, key) == Includes(fset, key) /\ ~PathExists(fs, key)

\* The files and the cache update_from_fs starts from.  A file that exists
\* has the mtime MaxTime and the content d1 (the image always exists); the
\* cache loaded from disk holds, for a path, nothing, the entry made from the
\* file as it is, or (for r/a.mp4) one made from an earlier version of it.
RecFile == SourceFile(MaxTime, "d1")
FreshEntry == MtimeCacheEntry(MaxTime, "d1")
OldEntry == MtimeCacheEntry(0, "d0")
RecFiles == {fs \in [AllKeys -> {NoSourceFile, RecFile}] : fs[FileG].exists}
RecCaches ==
    { [k \in {x \in AllKeys : c[x] # NullEntry} |-> c[k]] :
        c \in {e \in [AllKeys -> {NullEntry, FreshEntry, OldEntry}] :
                  \A k \in AllKeys \ {FileA} : e[k] # OldEntry} }

\* The disk a cache holding m was loaded from: no file for the empty map.
LoadedFrom(m) ==
    IF m = EmptyMap THEN NoDisk ELSE SaveInner(NoDisk, CacheBin, m, "none", 0).disk

\* save_inner as update_from_fs meets it: it succeeds, or File::create fails.
RecSaveOutcomes(d, path, m) ==
    {SaveInner(d, path, m, "none", 0), SaveInner(d, path, m, "create", 0)}

IdleWorker == [pc |-> "idle", key |-> <<>>, prev |-> 0]

\* into_par_iter: every item is handed to one worker.
Remaining_LosesItems(pending, item) == {}

Remaining(pending, item) == pending \ {item}

\* An error returned by remove or get_insert, as errs_ret collects it.
RecError(kind, path) == [kind |-> kind, path |-> path]

InitRec ==
    /\ cache \in RecCaches
    /\ threshold \in 1..MaxThreshold
    /\ count \in 0..(threshold - 1)
    /\ cachePath = CacheBin
    /\ disk = LoadedFrom(cache)
    /\ files \in RecFiles
    /\ thr = [w \in Workers |-> IdleWorker]
    /\ \E fset \in FileSets :
          rec = [phase |-> "call", fset |-> fset, loading |-> {}, keys |-> {},
                 paths |-> {}, errs |-> {}, result |-> "none",
                 cache0 |-> cache, count0 |-> count, disk0 |-> disk]
    /\ last = NoCall /\ allOk = TRUE /\ crashed = FALSE /\ hist = {} /\ fp = Unused /\ ss = Unused

\* enumerate_from_fs()? returns the fatal error.
EnumerateFails ==
    /\ rec.phase = "call"
    /\ PathNotFound(rec.fset, files)
    /\ rec' = [rec EXCEPT !.phase = "done", !.result = "Err"]
    /\ UNCHANGED <<cache, count, threshold, cachePath, disk, files, last, allOk,
                   thr, crashed, hist, fp, ss>>

\* enumerate_from_fs() returns the loading paths; self.keys() is collected.
Enumerate ==
    /\ rec.phase = "call"
    /\ ~PathNotFound(rec.fset, files)
    /\ rec' = [rec EXCEPT !.phase = "remove",
                          !.loading = EnumeratedPaths(rec.fset, files),
                          !.keys = DOMAIN cache]
    /\ UNCHANGED <<cache, count, threshold, cachePath, disk, files, last, allOk,
                   thr, crashed, hist, fp, ss>>

\* The removal phase: a key the filter drops.
RemovalFiltered(w, key) ==
    /\ rec.phase = "remove" /\ thr[w].pc = "idle" /\ key \in rec.keys
    /\ ~Disappeared(rec.fset, files, key)
    /\ rec' = [rec EXCEPT !.keys = Remaining(rec.keys, key)]
    /\ UNCHANGED <<cache, count, threshold, cachePath, disk, files, last, allOk,
                   thr, crashed, hist, fp, ss>>

\* The removal phase: remove(key), its write-locked block.
RemovalWrite(w, key) ==
    /\ rec.phase = "remove" /\ thr[w].pc = "idle" /\ key \in rec.keys
    /\ Disappeared(rec.fset, files, key)
    /\ rec' = [rec EXCEPT !.keys = Remaining(rec.keys, key)]
    /\ cache' = MapRemove(cache, key)
    /\ thr' = [thr EXCEPT ![w] = [pc |-> "rm_count", key |-> key, prev |-> 0]]
    /\ UNCHANGED <<count, threshold, cachePath, disk, files, last, allOk,
                   crashed, hist, fp, ss>>

\* cache_modified_count.fetch_add(1, Relaxed) of remove and of insert.
WorkerFetchAdd(w) ==
    /\ thr[w].pc \in {"rm_count", "gi_count"}
    /\ count' = FetchAdd(count)
    /\ thr' = [thr EXCEPT ![w].prev = count,
                          ![w].pc = IF thr[w].pc = "rm_count" THEN "rm_update"
                                    ELSE "gi_write"]
    /\ UNCHANGED <<cache, threshold, cachePath, disk, files, last, allOk,
                   crashed, hist, rec, fp, ss>>

\* update_transaction_count_and_save_if_necessary, and the return of remove
\* or the ? after insert in force_insert.
WorkerUpdate(w) ==
    /\ thr[w].pc \in {"rm_update", "gi_update"}
    /\ LET save == ThresholdReached(thr[w].prev, threshold)
       IN  \E o \in IF save THEN RecSaveOutcomes(disk, cachePath, cache)
                    ELSE NoSave(disk) :
              /\ count' = IF save THEN 0 ELSE count
              /\ disk' = o.disk
              /\ rec' = IF o.res = "Ok" THEN rec
                        ELSE [rec EXCEPT !.errs = @ \cup {RecError(o.res, thr[w].key)}]
              /\ thr' = [thr EXCEPT ![w] =
                            IF thr[w].pc = "gi_update" /\ o.res = "Ok"
                            THEN [@ EXCEPT !.pc = "gi_get"]
                            ELSE IdleWorker]
    /\ UNCHANGED <<cache, threshold, cachePath, files, last, allOk, crashed,
                   hist, fp, ss>>

\* errs_ret.par_extend(errs) has driven every removal.
RemovalsDone ==
    /\ rec.phase = "remove" /\ rec.keys = {}
    /\ \A w \in Workers : thr[w].pc = "idle"
    /\ rec' = [rec EXCEPT !.phase = "insert", !.paths = rec.loading]
    /\ UNCHANGED <<cache, count, threshold, cachePath, disk, files, last, allOk,
                   thr, crashed, hist, fp, ss>>

\* A worker's get_insert returns Err(kind).
WorkerFails(w, kind, path) ==
    /\ rec' = [rec EXCEPT !.paths = Remaining(rec.paths, path),
                          !.errs = @ \cup {RecError(kind, path)}]
    /\ thr' = [thr EXCEPT ![w] = IdleWorker]

\* The insertion phase: get_insert(path), from contains_key to the decision
\* for a key that is absent.
GetInsertContainsKey(w, path) ==
    /\ rec.phase = "insert" /\ thr[w].pc = "idle" /\ path \in rec.paths
    /\ IF path \in DOMAIN cache
       THEN /\ thr' = [thr EXCEPT ![w] = [pc |-> "gi_stale", key |-> path, prev |-> 0]]
            /\ rec' = [rec EXCEPT !.paths = Remaining(rec.paths, path)]
       ELSE IF ~FsMtimeOk(files, path)
            THEN WorkerFails(w, "CacheItemIoError", path)
            ELSE /\ thr' = [thr EXCEPT ![w] = [pc |-> "gi_count", key |-> path,
                                               prev |-> 0]]
                 /\ rec' = [rec EXCEPT !.paths = Remaining(rec.paths, path)]
    /\ UNCHANGED <<cache, count, threshold, cachePath, disk, files, last, allOk,
                   crashed, hist, fp, ss>>

\* get_insert: val_is_stale and the decision for a key that was present.
GetInsertValIsStale(w) ==
    /\ thr[w].pc = "gi_stale"
    /\ LET key == thr[w].key
       IN  IF key \notin DOMAIN cache
           THEN WorkerFails(w, "KeyMissingError", key)
           ELSE IF ~FsMtimeOk(files, key)
                THEN WorkerFails(w, "CacheItemIoError", key)
                ELSE /\ thr' = [thr EXCEPT ![w].pc =
                                   IF InsertionRequired(cache, files, key)
                                   THEN "gi_count" ELSE "gi_get"]
                     /\ UNCHANGED rec
    /\ UNCHANGED <<cache, count, threshold, cachePath, disk, files, last, allOk,
                   crashed, hist, fp, ss>>

\* force_insert: the write-locked block of insert.
GetInsertWrite(w) ==
    /\ thr[w].pc = "gi_write"
    /\ LET key == thr[w].key
       IN  cache' = MapInsert(cache, key,
                              ForcedEntry(files, key, FsMtime(files, key)))
    /\ thr' = [thr EXCEPT ![w].pc = "gi_update"]
    /\ UNCHANGED <<count, threshold, cachePath, disk, files, last, allOk,
                   crashed, hist, rec, fp, ss>>

\* The get that ends force_insert and get_insert.
GetInsertGet(w) ==
    /\ thr[w].pc = "gi_get"
    /\ IF thr[w].key \in DOMAIN cache
       THEN thr' = [thr EXCEPT ![w] = IdleWorker] /\ UNCHANGED rec
       ELSE WorkerFails(w, "KeyMissingError", thr[w].key)
    /\ UNCHANGED <<cache, count, threshold, cachePath, disk, files, last, allOk,
                   crashed, hist, fp, ss>>

\* update_from_fs returns Ok(errs_ret).
UpdateFromFsReturns ==
    /\ rec.phase = "insert" /\ rec.paths = {}
    /\ \A w \in Workers : thr[w].pc = "idle"
    /\ rec' = [rec EXCEPT !.phase = "done", !.result = "Ok"]
    /\ UNCHANGED <<cache, count, threshold, cachePath, disk, files, last, allOk,
                   thr, crashed, hist, fp, ss>>

NextRec ==
    \/ EnumerateFails
    \/ Enumerate
    \/ \E w \in Workers, k \in AllKeys : RemovalFiltered(w, k)
    \/ \E w \in Workers, k \in AllKeys : RemovalWrite(w, k)
    \/ \E w \in Workers : WorkerFetchAdd(w)
    \/ \E w \in Workers : WorkerUpdate(w)
    \/ RemovalsDone
    \/ \E w \in Workers, p \in AllKeys : GetInsertContainsKey(w, p)
    \/ \E w \in Workers : GetInsertValIsStale(w)
    \/ \E w \in Workers : GetInsertWrite(w)
    \/ \E w \in Workers : GetInsertGet(w)
    \/ UpdateFromFsReturns

SpecRec == InitRec /\ [][NextRec]_vars

-----------------------------------------------------------------------------
\* SpecDist: TemporalHash::new and TemporalHash::distance.

\* definitions.rs
HASH_NUM_IMAGES == 10
HASH_IMAGE_X == 8
HASH_IMAGE_Y == 8
HASH_DISTANCE_SCALING_FACTOR == 64

HASH_FRAME_QWORDS == (HASH_IMAGE_X * HASH_IMAGE_Y) \div 64
SPATIAL_HASH_QWORDS == HASH_FRAME_QWORDS * HASH_NUM_IMAGES
TEMPORAL_HASH_QWORDS == HASH_FRAME_QWORDS * (HASH_NUM_IMAGES - 1)

\* The bits of a u64 word.
U64_BITS == 64

\* Bound: the low bits of a word that the frames under test set one by one;
\* the remaining high bits of a word are all 0 or all 1.  A word is written
\* as its low bits plus Pow2(WordBits) when the high bits are set, so that
\* FullWord is u64::MAX.
WordBits == 1
RECURSIVE Pow2(_)
Pow2(n) == IF n = 0 THEN 1 ELSE 2 * Pow2(n - 1)
FullWord == Pow2(WordBits + 1) - 1
LowBits(x) == x % Pow2(WordBits)
HighBitsSet(x) == x \div Pow2(WordBits) = 1

\* x ^ y and u64::count_ones, bit by bit.
RECURSIVE BitXor(_, _)
BitXor(x, y) ==
    IF x = 0 /\ y = 0 THEN 0
    ELSE ((x + y) % 2) + 2 * BitXor(x \div 2, y \div 2)

RECURSIVE BitOr(_, _)
BitOr(x, y) ==
    IF x = 0 /\ y = 0 THEN 0
    ELSE (IF x % 2 = 1 \/ y % 2 = 1 THEN 1 ELSE 0) + 2 * BitOr(x \div 2, y \div 2)

RECURSIVE CountLow(_)
CountLow(x) == IF x = 0 THEN 0 ELSE (x % 2) + CountLow(x \div 2)

CountOnes(x) ==
    CountLow(LowBits(x)) + (IF HighBitsSet(x) THEN U64_BITS - WordBits ELSE 0)

\* raw_distance: the bits set in the difference of two words.
Difference_Or(x, y) == BitOr(x, y)

Difference(x, y) == BitXor(x, y)

\* raw_distance: the fold over the zipped arrays.
RECURSIVE RawDistanceFrom(_, _, _)
RawDistanceFrom(x, y, i) ==
    IF i > Len(x) \/ i > Len(y) THEN 0
    ELSE CountOnes(Difference(x[i], y[i])) + RawDistanceFrom(x, y, i + 1)

raw_distance(x, y) == RawDistanceFrom(x, y, 1)

\* calc_lut_entry: scaling * (1.0 / (frame_no / max_frames)) as u32.  For
\* frame_no in 1..10 and max_frames = 10 the f64 value truncates to the
\* integer quotient.
calc_lut_entry_RoundsUp(frame_no, max_frames) ==
    (HASH_DISTANCE_SCALING_FACTOR * max_frames + frame_no - 1) \div frame_no

calc_lut_entry(frame_no, max_frames) ==
    (HASH_DISTANCE_SCALING_FACTOR * max_frames) \div frame_no

\* TEMPORAL_LUT and SPATIAL_LUT, indexed from 0; entry 0 stays 0.
TEMPORAL_LUT ==
    [i \in 0..(HASH_NUM_IMAGES - 1) |->
        IF i = 0 THEN 0 ELSE calc_lut_entry(i, HASH_NUM_IMAGES)]
SPATIAL_LUT_Rounded ==
    [i \in 0..HASH_NUM_IMAGES |->
        IF i = 0 THEN 0
        ELSE (2 * HASH_DISTANCE_SCALING_FACTOR * HASH_NUM_IMAGES + i) \div (2 * i)]

SPATIAL_LUT ==
    [i \in 0..HASH_NUM_IMAGES |->
        IF i = 0 THEN 0 ELSE calc_lut_entry(i, HASH_NUM_IMAGES)]

\* lut.get_unchecked(i): the entry, or for an index outside the table
\* whatever the read finds, or the abort of the process (Aborted).
Aborted == -1
OutOfBounds == {0, 1, Aborted}
GetUnchecked(lut, i) == IF i \in DOMAIN lut THEN {lut[i]} ELSE OutOfBounds

Min_First(a, b) == a

Min(a, b) == IF a < b THEN a ELSE b

\* raw_dist * entry; the product stays far below 2^32.
Scaled(raw_dist, entry) == IF entry = Aborted THEN Aborted ELSE raw_dist * entry

\* TemporalHash::spatial_distance and temporal_distance: the values the call
\* can return.  num_frames - 1 wraps below 0, out of the table.
spatial_distance(self, other) ==
    LET num_qwords == Min(self.num_frames, other.num_frames)
        raw_dist   == raw_distance(self.shash, other.shash)
    IN  {Scaled(raw_dist, e) : e \in GetUnchecked(SPATIAL_LUT, num_qwords)}

temporal_distance(self, other) ==
    LET num_qwords == Min(self.num_frames, other.num_frames) - 1
        raw_dist   == raw_distance(self.thash, other.thash)
    IN  {Scaled(raw_dist, e) : e \in GetUnchecked(TEMPORAL_LUT, num_qwords)}

\* TemporalHash::distance
distance(self, other) ==
    {[spatial |-> sd, temporal |-> td] :
        sd \in spatial_distance(self, other), td \in temporal_distance(self, other)}

\* into_iter().flatten().collect()
RECURSIVE Flatten(_)
Flatten(vv) == IF vv = <<>> THEN <<>> ELSE Head(vv) \o Flatten(Tail(vv))

\* [0; N] with the flattened words copied to its front.
ZeroPadded(words, n) == [i \in 1..n |-> IF i <= Len(words) THEN words[i] ELSE 0]

AllZeroes(arr) == \A i \in 1..Len(arr) : arr[i] = 0

NoHash == [res |-> "none", thash |-> <<>>, shash |-> <<>>, num_frames |-> 0]

\* TemporalHash::new: the test on the number of spatial frames.
VideoTooShort_BelowOne(spatial_len) == spatial_len < 1

VideoTooShort(spatial_len) == spatial_len < 2

\* TemporalHash::new (the src_path, which no distance reads, is left out).
\* copy_from_slice panics when the words do not fit the array.
TemporalHashNew(spatial_hash, temporal_hash) ==
    LET spatial_len  == Len(spatial_hash)
        flat_spatial == Flatten(spatial_hash)
        flat_temporal == Flatten(temporal_hash)
        ret == [res |-> "Ok",
                thash |-> ZeroPadded(flat_temporal, TEMPORAL_HASH_QWORDS),
                shash |-> ZeroPadded(flat_spatial, SPATIAL_HASH_QWORDS),
                num_frames |-> spatial_len]
    IN  IF VideoTooShort(spatial_len) THEN [NoHash EXCEPT !.res = "VideoTooShortError"]
        ELSE IF Len(flat_spatial) > SPATIAL_HASH_QWORDS
                \/ Len(flat_temporal) > TEMPORAL_HASH_QWORDS
             THEN [NoHash EXCEPT !.res = "panic"]
             ELSE IF AllZeroes(ret.shash) /\ AllZeroes(ret.thash)
                  THEN [NoHash EXCEPT !.res = "EmptyHashError"]
                  ELSE ret

\* The frames a video gives: at most HASH_NUM_IMAGES of them (the sampler is
\* asked for no more), one word each, and one temporal word less.  The
\* frames under test are a first word and a word repeated after it.
SpatialFrames(n, first, rest) == [i \in 1..n |-> <<IF i = 1 THEN first ELSE rest>>]
TemporalFrames(n, word) == [i \in 1..(IF n = 0 THEN 0 ELSE n - 1) |-> <<word>>]
FrameCounts == 0..HASH_NUM_IMAGES

\* The first words under test: no bit, the lowest bit, all bits but the
\* lowest, and every bit (u64::MAX).
FirstWords == {0, 1, FullWord - 1, FullWord}

Slots == {"a", "b"}
NoFrames == [spatial |-> <<>>, temporal |-> <<>>]
NoDistance == [called |-> FALSE, x |-> "a", y |-> "a", spatial |-> 0, temporal |-> 0]

InitDist ==
    /\ fp = [a |-> NoHash, b |-> NoHash, d |-> NoDistance,
             frames |-> [s \in Slots |-> NoFrames]]
    /\ cache = EmptyMap /\ count = 0 /\ threshold = 1 /\ cachePath = CacheBin
    /\ disk = NoDisk /\ files = Unused /\ last = NoCall /\ allOk = TRUE
    /\ thr = Unused /\ crashed = FALSE /\ hist = {} /\ rec = Unused /\ ss = Unused

\* TemporalHash::new(path, spatial_hash, temporal_hash) into an empty slot.
NewHash(slot, n, first, rest, tword) ==
    /\ fp[slot] = NoHash
    /\ fp' = [fp EXCEPT ![slot] = TemporalHashNew(SpatialFrames(n, first, rest),
                                                  TemporalFrames(n, tword)),
                        !.frames[slot] = [spatial |-> SpatialFrames(n, first, rest),
                                          temporal |-> TemporalFrames(n, tword)],
                        !.d = NoDistance]
    /\ UNCHANGED <<cache, count, threshold, cachePath, disk, files, last, allOk,
                   thr, crashed, hist, rec, ss>>

\* b = a.clone()
CloneHash ==
    /\ fp.a.res = "Ok" /\ fp.b = NoHash
    /\ fp' = [fp EXCEPT !.b = fp.a, !.frames.b = fp.frames.a, !.d = NoDistance]
    /\ UNCHANGED <<cache, count, threshold, cachePath, disk, files, last, allOk,
                   thr, crashed, hist, rec, ss>>

\* fp[x].distance(&fp[y]), once the two fingerprints are built.
Distance(x, y) ==
    /\ ~fp.d.called
    /\ fp[x].res = "Ok" /\ fp[y].res = "Ok"
    /\ \E d \in distance(fp[x], fp[y]) :
          fp' = [fp EXCEPT !.d = [called |-> TRUE, x |-> x, y |-> y,
                                  spatial |-> d.spatial, temporal |-> d.temporal]]
    /\ UNCHANGED <<cache, count, threshold, cachePath, disk, files, last, allOk,
                   thr, crashed, hist, rec, ss>>

NextDist ==
    \/ \E slot \in Slots, n \in FrameCounts, first \in FirstWords,
          rest \in {0, FullWord}, tword \in {0, 1, FullWord} :
          NewHash(slot, n, first, rest, tword)
    \/ CloneHash
    \/ \E x \in Slots, y \in Slots : Distance(x, y)

SpecDist == InitDist /\ [][NextDist]_vars

(***************************************************************************)
(* The search structures: SearchVec and BkTree (specification SpecSearch). *)
(* A seeded TemporalHash is named by its src_path; its words are           *)
(* VideoHash[path].  A BkTree is the map from a node's position, the keys  *)
(* of the children maps on the way from the root, to the node's value and  *)
(* taint flag.  The order of a HashMap iteration is any order.             *)
(***************************************************************************)
\* The videos under test, ten frames each: V1 and V2 give the same words,
\* V3 differs from V1 in one bit of one frame and one bit of every
\* temporal word, V4 differs from V1 in 63 bits of every temporal word.
Videos == {"V1", "V2", "V3", "V4"}

VideoHash ==
    [v \in Videos |->
        CASE v = "V1" -> TemporalHashNew(SpatialFrames(HASH_NUM_IMAGES, 1, 0),
                                         TemporalFrames(HASH_NUM_IMAGES, 0))
          [] v = "V2" -> TemporalHashNew(SpatialFrames(HASH_NUM_IMAGES, 1, 0),
                                         TemporalFrames(HASH_NUM_IMAGES, 0))
          [] v = "V3" -> TemporalHashNew(SpatialFrames(HASH_NUM_IMAGES, 0, 0),
                                         TemporalFrames(HASH_NUM_IMAGES, 1))
          [] v = "V4" -> TemporalHashNew(SpatialFrames(HASH_NUM_IMAGES, 1, 0),
                                         TemporalFrames(HASH_NUM_IMAGES, FullWord - 1))]

\* a.distance(b) for two of the videos (their frame counts are in range, so
\* the distance is one value).
VideoDistance ==
    [a \in Videos, b \in Videos |->
        CHOOSE d \in distance(VideoHash[a], VideoHash[b]) : TRUE]

\* Distance::u32_value
u32_value(d) == d.temporal + d.spatial

\* TOLERANCE_SCALING_FACTOR and ScaledTolerance::from: the fraction of the
\* largest distance, as an integer.
TOLERANCE_SCALING_FACTOR ==
    HASH_IMAGE_X * HASH_IMAGE_Y * HASH_DISTANCE_SCALING_FACTOR * HASH_NUM_IMAGES

\* tolerance given in hundredths: (tol * TOLERANCE_SCALING_FACTOR) as u32
ScaledTolerance(spatial_pct, temporal_pct) ==
    [spatial  |-> (spatial_pct * TOLERANCE_SCALING_FACTOR) \div 100,
     temporal |-> (temporal_pct * TOLERANCE_SCALING_FACTOR) \div 100]

\* DEFAULT_TOLERANCE is 0.05 and 0.05.
DEFAULT_TOLERANCE == ScaledTolerance(5, 5)

\* The tolerances under test: none and the default.
Tolerances == {ScaledTolerance(0, 0), DEFAULT_TOLERANCE}

\* The test of search_one / search_inner on one entry; the flag is loaded
\* twice.
Emits_IgnoresTaint(d, tolerance, tainted1, tainted2) ==
    d.spatial <= tolerance.spatial /\ d.temporal <= tolerance.temporal

Emits(d, tolerance, tainted1, tainted2) ==
    /\ (d.spatial <= tolerance.spatial /\ ~tainted1)
    /\ (d.temporal <= tolerance.temporal /\ ~tainted2)

\* if consume { value_tainted.store(true) }: the flag of an emitted entry.
TaintEmitted_Never(consume, tainted) == tainted

TaintEmitted(consume, tainted) == IF consume THEN TRUE ELSE tainted

Range(s) == {s[i] : i \in 1..Len(s)}

\* Iterator::take
Take(s, n) == SubSeq(s, 1, Min(n, Len(s)))

Values(s) == [i \in 1..Len(s) |-> s[i].value]

(***************************************************************************)
(* SearchVec                                                              *)
(***************************************************************************)
SearchVec_new == <<>>

SearchVec_seed(entries, new_entry) ==
    Append(entries, [value_tainted |-> FALSE, value |-> new_entry])

\* SearchVec::search_one run by one thread: the entries it emits and the
\* entries afterwards.
SearchVec_emits(entry, value, tolerance) ==
    Emits(VideoDistance[value, entry.value], tolerance,
          entry.value_tainted, entry.value_tainted)

SearchVec_search_one(entries, value, tolerance, consume) ==
    [ret |-> Values(SelectSeq(entries,
                        LAMBDA entry : SearchVec_emits(entry, value, tolerance))),
     entries |-> [i \in 1..Len(entries) |->
                    IF SearchVec_emits(entries[i], value, tolerance)
                    THEN [entries[i] EXCEPT
                            !.value_tainted = TaintEmitted(consume, @)]
                    ELSE entries[i]]]

SearchVec_fetch_unmatched_items(entries, n) ==
    Take(Values(SelectSeq(entries, LAMBDA entry : ~entry.value_tainted)), n)

\* Vec::swap_remove(i): the last element takes the place of the i-th.
swap_remove(v, i) ==
    [j \in 1..(Len(v) - 1) |-> IF j = i THEN v[Len(v)] ELSE v[j]]

\* for i in (0..len).rev() { if tainted { swap_remove(i) } }
RECURSIVE SearchVec_remove_from(_, _)
SearchVec_remove_from(entries, i) ==
    IF i = 0 THEN entries
    ELSE SearchVec_remove_from(
            IF entries[i].value_tainted THEN swap_remove(entries, i) ELSE entries,
            i - 1)

SearchVec_into_without_unmatched(entries) ==
    SearchVec_remove_from(entries, Len(entries))

SearchVec_len(entries) == Len(entries)

(***************************************************************************)
(* BkTree                                                                 *)
(***************************************************************************)
None == "None"
RootNode == <<>>

BkTree_new == (RootNode :> [value |-> None, value_tainted |-> FALSE])

\* BkTree::seed, at the node in position p.
RECURSIVE BkTree_seed_at(_, _, _)
BkTree_seed_at(tree, p, new_entry) ==
    IF p \notin DOMAIN tree
    THEN tree @@ (p :> [value |-> new_entry, value_tainted |-> FALSE])
    ELSE IF tree[p].value = None
         THEN [tree EXCEPT ![p].value = new_entry]
         ELSE BkTree_seed_at(tree,
                  Append(p, u32_value(VideoDistance[tree[p].value, new_entry])),
                  new_entry)

BkTree_seed(tree, new_entry) == BkTree_seed_at(tree, RootNode, new_entry)

\* self.children of the node in position p, and the key of a child.
Children(tree, p) ==
    {q \in DOMAIN tree : Len(q) = Len(p) + 1 /\ SubSeq(q, 1, Len(p)) = p}

ChildKey(q) == q[Len(q)]

\* u32::saturating_sub; saturating_add never reaches u32::MAX for the
\* distances and tolerances here.
saturating_sub(a, b) == IF a < b THEN 0 ELSE a - b
saturating_add(a, b) == a + b

\* children_to_search of search_inner: the keys in both ranges.
children_to_search(tree, p, value, tolerance) ==
    LET d == VideoDistance[tree[p].value, value]
    IN  {q \in Children(tree, p) :
            /\ saturating_sub(d.spatial, tolerance.spatial) <= ChildKey(q)
            /\ ChildKey(q) <= saturating_add(d.spatial, tolerance.spatial)
            /\ saturating_sub(d.temporal, tolerance.temporal) <= ChildKey(q)
            /\ ChildKey(q) <= saturating_add(d.temporal, tolerance.temporal)}

\* The nodes search_inner is called on, from the node in position p down.
RECURSIVE BkTree_searched(_, _, _, _)
BkTree_searched(tree, p, value, tolerance) ==
    IF tree[p].value = None THEN {}
    ELSE {p} \cup UNION {BkTree_searched(tree, q, value, tolerance) :
                            q \in children_to_search(tree, p, value, tolerance)}

BkTree_emits(node, value, tolerance) ==
    Emits(VideoDistance[node.value, value], tolerance,
          node.value_tainted, node.value_tainted)

\* Every order a HashMap may give the elements of a set.
Orders(S) ==
    {s \in [1..Cardinality(S) -> S] : \A i, j \in 1..Cardinality(S) : s[i] = s[j] => i = j}

\* The nodes from position p down, the node before (pre) or after its
\* children, the children in any order.
RECURSIVE BkTree_walks(_, _, _)
RECURSIVE BkTree_walks_of(_, _, _)
BkTree_walks_of(tree, children, pre) ==
    IF children = <<>> THEN {<<>>}
    ELSE {a \o b : a \in BkTree_walks(tree, Head(children), pre),
                   b \in BkTree_walks_of(tree, Tail(children), pre)}

BkTree_walks(tree, p, pre) ==
    {IF pre THEN <<p>> \o w ELSE w \o <<p>> :
        w \in UNION {BkTree_walks_of(tree, children, pre) :
                        children \in Orders(Children(tree, p))}}

\* The root's flag after search_one: stored true after every search.
RootTaint(tainted) == TRUE

\* BkTree::search_one run by one thread: the nodes whose value it emits and
\* the tree afterwards.
BkTree_search_one(tree, value, tolerance, consume) ==
    LET searched == BkTree_searched(tree, RootNode, value, tolerance)
        emitted == {p \in searched : BkTree_emits(tree[p], value, tolerance)}
        after == [p \in DOMAIN tree |->
                    IF p \in emitted
                    THEN [tree[p] EXCEPT !.value_tainted = TaintEmitted(consume, @)]
                    ELSE tree[p]]
    IN  [emitted |-> emitted,
         tree |-> [after EXCEPT ![RootNode].value_tainted = RootTaint(@)]]

\* ret of search_one: the emitted values in the order the nodes are met, the
\* node before its children.
BkTree_ret(tree, walk, emitted) ==
    LET met == SelectSeq(walk, LAMBDA p : p \in emitted)
    IN  [i \in 1..Len(met) |-> tree[met[i]].value]

BkTree_unmatched(tree, p) == tree[p].value /= None /\ ~tree[p].value_tainted

\* fetch_unmatched_items: children first, then the node, until count items.
BkTree_fetch_unmatched_items(tree, walk, n) ==
    LET kept == SelectSeq(walk, LAMBDA p : BkTree_unmatched(tree, p))
    IN  Take([i \in 1..Len(kept) |-> tree[kept[i]].value], n)

\* into_unmatched_items: the node first, then its children.
BkTree_into_unmatched_items(tree, walk) ==
    LET kept == SelectSeq(walk, LAMBDA p : BkTree_unmatched(tree, p))
    IN  [i \in 1..Len(kept) |-> tree[kept[i]].value]

\* BkTree::from
RECURSIVE BkTree_from(_, _)
BkTree_from(tree, v) ==
    IF v = <<>> THEN tree ELSE BkTree_from(BkTree_seed(tree, Head(v)), Tail(v))

BkTree_into_without_unmatched(tree, walk) ==
    BkTree_from(BkTree_new, BkTree_into_unmatched_items(tree, walk))

BkTree_values(tree) == {tree[p].value : p \in DOMAIN tree} \ {None}

BkTree_len(tree) == Cardinality({p \in DOMAIN tree : BkTree_unmatched(tree, p)})

(***************************************************************************)
(* SpecSearch                                                             *)
(***************************************************************************)
\* The most videos seeded into one pair of structures.
MaxSeeds == 2

\* count of fetch_unmatched_items under test.
Counts == {1, MaxSeeds}

NoSearchCall ==
    [op |-> "none", value |-> None, consume |-> FALSE,
     tolerance |-> ScaledTolerance(0, 0),
     count |-> 0, bk |-> {}, vec |-> {}, bk_len |-> 0, vec_len |-> 0,
     untainted |-> FALSE, bk_again |-> {}, vec_again |-> {},
     bk_held |-> {}, vec_held |-> {}]

\* Both structures are new; `seeded` is the seeding sequence, `consumed` the
\* values a consuming search emitted, per structure.  A call records the
\* sets of values returned (bk, vec), whether no flag was set before it
\* (untainted), the values it returned that a consuming search had returned
\* before (again) and the values each structure held before it (held).
InitSearch ==
    /\ ss = [bk |-> BkTree_new, vec |-> SearchVec_new, seeded |-> <<>>,
             bk_consumed |-> {}, vec_consumed |-> {}, call |-> NoSearchCall]
    /\ cache = EmptyMap /\ count = 0 /\ threshold = 1 /\ cachePath = CacheBin
    /\ disk = NoDisk /\ files = Unused /\ last = NoCall /\ allOk = TRUE
    /\ thr = Unused /\ crashed = FALSE /\ hist = {} /\ rec = Unused /\ fp = Unused

NoTaint(s) ==
    /\ \A p \in DOMAIN s.bk : ~s.bk[p].value_tainted
    /\ \A i \in 1..Len(s.vec) : ~s.vec[i].value_tainted

\* seed(new_entry) on both structures; as in find_all and find_with_refs,
\* every seed comes before the first other call.
Seed(new_entry) ==
    /\ ss.call.op \in {"none", "seed"}
    /\ Len(ss.seeded) < MaxSeeds
    /\ new_entry \notin Range(ss.seeded)
    /\ ss' = [ss EXCEPT !.bk = BkTree_seed(@, new_entry),
                        !.vec = SearchVec_seed(@, new_entry),
                        !.seeded = Append(@, new_entry),
                        !.call = [NoSearchCall EXCEPT !.op = "seed",
                                                      !.value = new_entry]]
    /\ UNCHANGED <<cache, count, threshold, cachePath, disk, files, last, allOk,
                   thr, crashed, hist, rec, fp>>

\* search_deterministic(&[value], tolerance, consume) on both structures.
SearchOne(value, tolerance, consume) ==
    LET b == BkTree_search_one(ss.bk, value, tolerance, consume)
        v == SearchVec_search_one(ss.vec, value, tolerance, consume)
        b_ret == {ss.bk[p].value : p \in b.emitted}
    IN  /\ ss' = [ss EXCEPT
                    !.bk = b.tree, !.vec = v.entries,
                    !.bk_consumed = IF consume THEN @ \cup b_ret ELSE @,
                    !.vec_consumed = IF consume THEN @ \cup Range(v.ret) ELSE @,
                    !.call = [NoSearchCall EXCEPT
                                !.op = "search", !.value = value,
                                !.consume = consume, !.tolerance = tolerance,
                                !.bk = b_ret, !.vec = Range(v.ret),
                                !.untainted = NoTaint(ss),
                                !.bk_held = BkTree_values(ss.bk),
                                !.vec_held = Range(Values(ss.vec)),
                                !.bk_again = b_ret \cap ss.bk_consumed,
                                !.vec_again = Range(v.ret) \cap ss.vec_consumed]]
        /\ UNCHANGED <<cache, count, threshold, cachePath, disk, files, last,
                       allOk, thr, crashed, hist, rec, fp>>

\* fetch_unmatched_items(count) on both structures.
FetchUnmatchedItems(n) ==
    \E walk \in BkTree_walks(ss.bk, RootNode, FALSE) :
        /\ ss' = [ss EXCEPT
                    !.call = [NoSearchCall EXCEPT
                                !.op = "fetch_unmatched_items", !.count = n,
                                !.bk = Range(BkTree_fetch_unmatched_items(ss.bk, walk, n)),
                                !.vec = Range(SearchVec_fetch_unmatched_items(ss.vec, n))]]
        /\ UNCHANGED <<cache, count, threshold, cachePath, disk, files, last,
                       allOk, thr, crashed, hist, rec, fp>>

\* into_without_unmatched() on both structures.
IntoWithoutUnmatched ==
    \E walk \in BkTree_walks(ss.bk, RootNode, TRUE) :
        /\ ss' = [ss EXCEPT
                    !.bk = BkTree_into_without_unmatched(ss.bk, walk),
                    !.vec = SearchVec_into_without_unmatched(ss.vec),
                    !.call = [NoSearchCall EXCEPT !.op = "into_without_unmatched"]]
        /\ UNCHANGED <<cache, count, threshold, cachePath, disk, files, last,
                       allOk, thr, crashed, hist, rec, fp>>

\* len() on both structures.
GetLen ==
    /\ ss' = [ss EXCEPT !.call = [NoSearchCall EXCEPT
                                    !.op = "len",
                                    !.bk_len = BkTree_len(ss.bk),
                                    !.vec_len = SearchVec_len(ss.vec)]]
    /\ UNCHANGED <<cache, count, threshold, cachePath, disk, files, last, allOk,
                   thr, crashed, hist, rec, fp>>

NextSearch ==
    \/ \E new_entry \in Videos : Seed(new_entry)
    \/ \E value \in Videos, tolerance \in Tolerances, consume \in BOOLEAN :
          SearchOne(value, tolerance, consume)
    \/ \E n \in Counts : FetchUnmatchedItems(n)
    \/ IntoWithoutUnmatched
    \/ GetLen

SpecSearch == InitSearch /\ [][NextSearch]_vars

(***************************************************************************)
(* VideoDupFinder::find_all.  With deterministic_search (specification     *)
(* SpecFind) the search of one value is one step; without it               *)
(* (specification SpecFindPar) the pool's workers take the batch's values  *)
(* in any order and each load and store of a taint flag is a step of its   *)
(* own.                                                                    *)
(***************************************************************************)
\* The most hashes given to find_all.
MaxHashes == 3

\* let chunk_size = 5_000
chunk_size == 5000

\* The tolerances find_all is given: those above and one of 0.05 and 0.99,
\* under which V1 is within tolerance of V3 and of V4 but V3 is not within
\* tolerance of V4.
ChainTolerance == ScaledTolerance(5, 99)
FindTolerances == Tolerances \cup {ChainTolerance}

\* The lists of hashes under test: distinct videos in any order.
HashLists ==
    {h \in UNION {[1..n -> Videos] : n \in 0..MaxHashes} :
        \A i, j \in 1..Len(h) : h[i] = h[j] => i = j}

\* SearchStructEnum::new and the dispatch of SearchStructEnum.
SearchStructEnum_new(vec_search) == IF vec_search THEN SearchVec_new ELSE BkTree_new

SearchStructEnum_seed(vec_search, search_struct, new_entry) ==
    IF vec_search THEN SearchVec_seed(search_struct, new_entry)
    ELSE BkTree_seed(search_struct, new_entry)

SearchStructEnum_len(vec_search, search_struct) ==
    IF vec_search THEN SearchVec_len(search_struct) ELSE BkTree_len(search_struct)

\* for hash in hashes { search_struct.seed(hash) }
RECURSIVE seed_all(_, _, _)
seed_all(vec_search, search_struct, hashes) ==
    IF hashes = <<>> THEN search_struct
    ELSE seed_all(vec_search,
                  SearchStructEnum_seed(vec_search, search_struct, Head(hashes)),
                  Tail(hashes))

\* The order in which the HashMaps of a tree give their children, kept as
\* the walk that meets each node before its children; a SearchVec has none.
WalksOf(vec_search, search_struct) ==
    IF vec_search THEN {<<>>} ELSE BkTree_walks(search_struct, RootNode, TRUE)

\* The same order with each node after its children.
RECURSIVE BkTree_post(_, _, _)
RECURSIVE BkTree_post_of(_, _, _)
BkTree_post_of(tree, walk, children) ==
    IF children = <<>> THEN <<>>
    ELSE BkTree_post(tree, walk, Head(children))
            \o BkTree_post_of(tree, walk, Tail(children))

BkTree_post(tree, walk, p) ==
    BkTree_post_of(tree, walk, SelectSeq(walk, LAMBDA q : q \in Children(tree, p)))
        \o <<p>>

SearchStructEnum_fetch_unmatched_items(vec_search, search_struct, walk, n) ==
    IF vec_search THEN SearchVec_fetch_unmatched_items(search_struct, n)
    ELSE BkTree_fetch_unmatched_items(search_struct,
                                      BkTree_post(search_struct, walk, RootNode), n)

SearchStructEnum_into_without_unmatched(vec_search, search_struct, walk) ==
    IF vec_search THEN SearchVec_into_without_unmatched(search_struct)
    ELSE BkTree_into_without_unmatched(search_struct, walk)

\* search_one of either structure run by one thread.
SearchStructEnum_search_one(vec_search, search_struct, walk, value, tolerance, consume) ==
    IF vec_search
    THEN LET v == SearchVec_search_one(search_struct, value, tolerance, consume)
         IN  [ret |-> v.ret, search_struct |-> v.entries]
    ELSE LET b == BkTree_search_one(search_struct, value, tolerance, consume)
         IN  [ret |-> BkTree_ret(search_struct, walk, b.emitted),
              search_struct |-> b.tree]

\* MatchGroup::new
MatchGroup_new(entries) == [reference |-> None, duplicates |-> entries]

\* .filter(|vec| !vec.is_empty()) of search, then .filter(|group|
\* group.len() > 1) and the map into MatchGroup of find_all.
MatchGroups(rets) ==
    LET found  == SelectSeq(rets, LAMBDA vec : vec /= <<>>)
        groups == SelectSeq(found, LAMBDA group : Len(group) > 1)
    IN  [i \in 1..Len(groups) |-> MatchGroup_new(groups[i])]

\* What a worker holds: the index of its value in the batch, the positions
\* (entries of the vector, nodes of the tree) still to test, and ret.
IdleSearcher == [pc |-> "idle", q |-> 0, todo |-> <<>>, ret |-> <<>>]

NoMatch == [taken |-> FALSE, done |-> FALSE, ret |-> <<>>]

\* find_all is entered with its arguments.
FindAll(deterministic_search) ==
    /\ \E hashes \in HashLists, tolerance \in FindTolerances, vec_search \in BOOLEAN :
          ss = [pc |-> "seed", hashes |-> hashes, tolerance |-> tolerance,
                deterministic_search |-> deterministic_search,
                vec_search |-> vec_search,
                search_struct |-> SearchStructEnum_new(vec_search), walk |-> <<>>,
                items_to_match |-> <<>>, matches |-> <<>>, match_groups |-> <<>>,
                earlier |-> <<>>]
    /\ thr = [w \in Workers |-> IdleSearcher]
    /\ cache = EmptyMap /\ count = 0 /\ threshold = 1 /\ cachePath = CacheBin
    /\ disk = NoDisk /\ files = Unused /\ last = NoCall /\ allOk = TRUE
    /\ crashed = FALSE /\ hist = {} /\ rec = Unused /\ fp = Unused

\* find_all up to the loop: the structure is seeded.
SeedAll ==
    /\ ss.pc = "seed"
    /\ LET seeded == seed_all(ss.vec_search, ss.search_struct, ss.hashes)
       IN  \E walk \in WalksOf(ss.vec_search, seeded) :
              ss' = [ss EXCEPT !.pc = "loop", !.search_struct = seeded,
                               !.walk = walk]
    /\ UNCHANGED <<cache, count, threshold, cachePath, disk, files, last, allOk,
                   thr, crashed, hist, rec, fp>>

\* while search_struct.len() > 0 { items_to_match = fetch_unmatched_items(..)
LoopTest ==
    /\ ss.pc = "loop"
    /\ IF SearchStructEnum_len(ss.vec_search, ss.search_struct) > 0
       THEN LET items == SearchStructEnum_fetch_unmatched_items(
                            ss.vec_search, ss.search_struct, ss.walk, chunk_size)
            IN  ss' = [ss EXCEPT !.pc = "search", !.items_to_match = items,
                                 !.matches = [i \in 1..Len(items) |-> NoMatch]]
       ELSE ss' = [ss EXCEPT !.pc = "done"]
    /\ UNCHANGED <<cache, count, threshold, cachePath, disk, files, last, allOk,
                   thr, crashed, hist, rec, fp>>

\* BkDeterministic / SearchVecDeterministic: one turn of the map of
\* search_deterministic(&items_to_match, tolerance, true), the values taken
\* in the order of the batch.
SearchDeterministic ==
    /\ ss.pc = "search" /\ ss.deterministic_search
    /\ \E i \in 1..Len(ss.matches) :
          /\ ~ss.matches[i].done
          /\ \A j \in 1..(i - 1) : ss.matches[j].done
          /\ LET one == SearchStructEnum_search_one(
                            ss.vec_search, ss.search_struct, ss.walk,
                            ss.items_to_match[i], ss.tolerance, TRUE)
             IN  ss' = [ss EXCEPT
                          !.search_struct = one.search_struct,
                          !.matches[i] = [taken |-> TRUE, done |-> TRUE,
                                          ret |-> one.ret]]
    /\ UNCHANGED <<cache, count, threshold, cachePath, disk, files, last, allOk,
                   thr, crashed, hist, rec, fp>>

\* The distance search_one computes at position p for `value`.
DistanceAt(p, value) ==
    IF ss.vec_search THEN VideoDistance[value, ss.search_struct[p].value]
    ELSE VideoDistance[ss.search_struct[p].value, value]

\* The positions at which search_one for `value` loads a flag, in order:
\* those it comes to whose spatial distance is within the tolerance.
Positions(value) ==
    LET near(p) == DistanceAt(p, value).spatial <= ss.tolerance.spatial
    IN  IF ss.vec_search
        THEN SelectSeq([i \in 1..Len(ss.search_struct) |-> i], near)
        ELSE LET searched == BkTree_searched(ss.search_struct, RootNode, value,
                                             ss.tolerance)
             IN  SelectSeq(ss.walk, LAMBDA p : p \in searched /\ near(p))

\* Worker w goes on after a position: to the next one, to the store of
\* BkTree::search_one into the root's flag, or to the end of search_one.
GoOn(w, search_struct, todo, ret) ==
    IF todo /= <<>>
    THEN /\ thr' = [thr EXCEPT ![w] = [@ EXCEPT !.pc = "load1", !.todo = todo,
                                                !.ret = ret]]
         /\ ss' = [ss EXCEPT !.search_struct = search_struct]
    ELSE IF ~ss.vec_search
         THEN /\ thr' = [thr EXCEPT ![w] = [@ EXCEPT !.pc = "root", !.todo = todo,
                                                     !.ret = ret]]
              /\ ss' = [ss EXCEPT !.search_struct = search_struct]
         ELSE /\ thr' = [thr EXCEPT ![w] = IdleSearcher]
              /\ ss' = [ss EXCEPT !.search_struct = search_struct,
                                  !.matches[thr[w].q].done = TRUE,
                                  !.matches[thr[w].q].ret = ret]

\* Bk / SearchVec: a worker of the pool takes a value of the batch and
\* enters search_one.
StartQuery(w, i) ==
    /\ ss.pc = "search" /\ ~ss.deterministic_search
    /\ thr[w].pc = "idle"
    /\ i \in 1..Len(ss.matches) /\ ~ss.matches[i].taken
    /\ LET todo == Positions(ss.items_to_match[i])
       IN  IF todo /= <<>> \/ ~ss.vec_search
           THEN /\ thr' = [thr EXCEPT ![w] =
                            [pc |-> IF todo /= <<>> THEN "load1" ELSE "root",
                             q |-> i, todo |-> todo, ret |-> <<>>]]
                /\ ss' = [ss EXCEPT !.matches[i].taken = TRUE]
           ELSE /\ thr' = thr
                /\ ss' = [ss EXCEPT !.matches[i].taken = TRUE,
                                    !.matches[i].done = TRUE]
    /\ UNCHANGED <<cache, count, threshold, cachePath, disk, files, last, allOk,
                   crashed, hist, rec, fp>>

\* The first value_tainted.load(Relaxed) of the condition.
Load1(w) ==
    /\ thr[w].pc = "load1"
    /\ LET p == Head(thr[w].todo)
           d == DistanceAt(p, ss.items_to_match[thr[w].q])
       IN  IF Emits(d, ss.tolerance, ss.search_struct[p].value_tainted, FALSE)
           THEN /\ thr' = [thr EXCEPT ![w].pc = "load2"]
                /\ ss' = ss
           ELSE GoOn(w, ss.search_struct, Tail(thr[w].todo), thr[w].ret)
    /\ UNCHANGED <<cache, count, threshold, cachePath, disk, files, last, allOk,
                   crashed, hist, rec, fp>>

\* The second value_tainted.load(Relaxed) and ret.push.
Load2(w) ==
    /\ thr[w].pc = "load2"
    /\ LET p == Head(thr[w].todo)
           d == DistanceAt(p, ss.items_to_match[thr[w].q])
       IN  IF Emits(d, ss.tolerance, FALSE, ss.search_struct[p].value_tainted)
           THEN /\ thr' = [thr EXCEPT ![w].pc = "store",
                                      ![w].ret = Append(@, ss.search_struct[p].value)]
                /\ ss' = ss
           ELSE GoOn(w, ss.search_struct, Tail(thr[w].todo), thr[w].ret)
    /\ UNCHANGED <<cache, count, threshold, cachePath, disk, files, last, allOk,
                   crashed, hist, rec, fp>>

\* if consume { value_tainted.store(true, Relaxed) }
Store(w) ==
    /\ thr[w].pc = "store"
    /\ LET p == Head(thr[w].todo)
       IN  GoOn(w, [ss.search_struct EXCEPT
                        ![p].value_tainted = TaintEmitted(TRUE, @)],
                Tail(thr[w].todo), thr[w].ret)
    /\ UNCHANGED <<cache, count, threshold, cachePath, disk, files, last, allOk,
                   crashed, hist, rec, fp>>

\* BkTree::search_one: self.value_tainted.store(true, Relaxed) and return.
RootStore(w) ==
    /\ thr[w].pc = "root"
    /\ thr' = [thr EXCEPT ![w] = IdleSearcher]
    /\ ss' = [ss EXCEPT !.search_struct[RootNode].value_tainted = RootTaint(@),
                        !.matches[thr[w].q].done = TRUE,
                        !.matches[thr[w].q].ret = thr[w].ret]
    /\ UNCHANGED <<cache, count, threshold, cachePath, disk, files, last, allOk,
                   crashed, hist, rec, fp>>

\* The end of a turn of the loop: the results are collected in the order of
\* the batch, the groups added, the structure rebuilt without the tainted.
EndBatch ==
    /\ ss.pc = "search"
    /\ \A i \in 1..Len(ss.matches) : ss.matches[i].done
    /\ LET rets == [i \in 1..Len(ss.matches) |-> ss.matches[i].ret]
           rebuilt == SearchStructEnum_into_without_unmatched(
                          ss.vec_search, ss.search_struct, ss.walk)
       IN  \E walk \in WalksOf(ss.vec_search, rebuilt) :
              ss' = [ss EXCEPT !.pc = "loop",
                               !.match_groups = @ \o MatchGroups(rets),
                               !.search_struct = rebuilt, !.walk = walk,
                               !.items_to_match = <<>>, !.matches = <<>>]
    /\ UNCHANGED <<cache, count, threshold, cachePath, disk, files, last, allOk,
                   thr, crashed, hist, rec, fp>>

InitFind == FindAll(TRUE)

NextFind ==
    \/ SeedAll
    \/ LoopTest
    \/ SearchDeterministic
    \/ EndBatch

SpecFind == InitFind /\ [][NextFind]_vars

\* find_all is called once more with the same arguments; what the first
\* call returned is kept in `earlier`.
FindAllAgain ==
    /\ ss.pc = "done" /\ ss.earlier = <<>>
    /\ ss' = [ss EXCEPT !.pc = "seed",
                        !.search_struct = SearchStructEnum_new(ss.vec_search),
                        !.walk = <<>>, !.match_groups = <<>>,
                        !.earlier = <<ss.match_groups>>]
    /\ UNCHANGED <<cache, count, threshold, cachePath, disk, files, last, allOk,
                   thr, crashed, hist, rec, fp>>

NextFindTwice ==
    \/ SeedAll
    \/ LoopTest
    \/ SearchDeterministic
    \/ EndBatch
    \/ FindAllAgain

SpecFindTwice == InitFind /\ [][NextFindTwice]_vars

InitFindPar == FindAll(FALSE)

NextFindPar ==
    \/ SeedAll
    \/ LoopTest
    \/ \E w \in Workers, i \in 1..MaxHashes : StartQuery(w, i)
    \/ \E w \in Workers : Load1(w)
    \/ \E w \in Workers : Load2(w)
    \/ \E w \in Workers : Store(w)
    \/ \E w \in Workers : RootStore(w)
    \/ EndBatch

SpecFindPar == InitFindPar /\ [][NextFindPar]_vars

(***************************************************************************)
(* VideoDupFinder::find_with_refs (specification SpecRefs).  The           *)
(* candidates are seeded in the order their HashSet gives them; the        *)
(* references are searched one after the other, each by a search of one    *)
(* value.                                                                  *)
(***************************************************************************)
\* The most references given to find_with_refs.
MaxRefs == 2

\* e.as_os_str().len() of the path of each video.
as_os_str_len == [v \in Videos |-> CASE v = "V1" -> 3 [] v = "V2" -> 2
                                     [] v = "V3" -> 3 [] v = "V4" -> 1]

\* Vec::sort_by_key(|e| e.as_os_str().len()): a stable sort.
RECURSIVE sort_by_key(_)
sort_by_key(entries) ==
    IF entries = <<>> THEN <<>>
    ELSE LET sorted == sort_by_key(SubSeq(entries, 1, Len(entries) - 1))
             e == entries[Len(entries)]
         IN  SelectSeq(sorted, LAMBDA x : as_os_str_len[x] <= as_os_str_len[e])
                \o <<e>>
                \o SelectSeq(sorted, LAMBDA x : as_os_str_len[x] > as_os_str_len[e])

\* MatchGroup::with_reference
MatchGroup_with_reference(reference, entries) ==
    [reference |-> reference, duplicates |-> sort_by_key(entries)]

\* The lists of references under test: distinct videos in any order.
RefLists ==
    {h \in UNION {[1..n -> Videos] : n \in 0..MaxRefs} :
        \A i, j \in 1..Len(h) : h[i] = h[j] => i = j}

\* find_with_refs is entered with its arguments; new_hashes is already the
\* HashSet it is collected into.
InitRefs ==
    /\ \E ref_hashes \in RefLists, tolerance \in FindTolerances,
          deterministic_search \in BOOLEAN, vec_search \in BOOLEAN :
          \E new_hashes \in SUBSET (Videos \ Range(ref_hashes)) :
             /\ Cardinality(new_hashes) <= MaxHashes
             /\ ss = [pc |-> "seed", ref_hashes |-> ref_hashes,
                      new_hashes |-> new_hashes, seeded |-> <<>>,
                      tolerance |-> tolerance,
                      deterministic_search |-> deterministic_search,
                      vec_search |-> vec_search,
                      search_struct |-> SearchStructEnum_new(vec_search),
                      walk |-> <<>>, searched |-> 0, match_groups |-> <<>>]
    /\ cache = EmptyMap /\ count = 0 /\ threshold = 1 /\ cachePath = CacheBin
    /\ disk = NoDisk /\ files = Unused /\ last = NoCall /\ allOk = TRUE
    /\ thr = Unused /\ crashed = FALSE /\ hist = {} /\ rec = Unused /\ fp = Unused

\* for hash in &new_hashes { search_struct.seed(hash.clone()) }
SeedNewHashes ==
    /\ ss.pc = "seed"
    /\ \E order \in Orders(ss.new_hashes) :
          LET seeded == seed_all(ss.vec_search, ss.search_struct, order)
          IN  \E walk \in WalksOf(ss.vec_search, seeded) :
                 ss' = [ss EXCEPT !.pc = "search", !.seeded = order,
                                  !.search_struct = seeded, !.walk = walk]
    /\ UNCHANGED <<cache, count, threshold, cachePath, disk, files, last, allOk,
                   thr, crashed, hist, rec, fp>>

\* One turn of the flat_map over ref_hashes: search(&[&ref_hash], tolerance,
\* true), one search_one whatever the mode, and the group of its result.
SearchRef ==
    /\ ss.pc = "search" /\ ss.searched < Len(ss.ref_hashes)
    /\ LET ref_hash == ss.ref_hashes[ss.searched + 1]
           one == SearchStructEnum_search_one(ss.vec_search, ss.search_struct,
                                              ss.walk, ref_hash, ss.tolerance, TRUE)
           matches == SelectSeq(<<one.ret>>, LAMBDA vec : vec /= <<>>)
       IN  ss' = [ss EXCEPT
                    !.search_struct = one.search_struct,
                    !.searched = @ + 1,
                    !.match_groups = @ \o
                        [i \in 1..Len(matches) |->
                            MatchGroup_with_reference(ref_hash, matches[i])]]
    /\ UNCHANGED <<cache, count, threshold, cachePath, disk, files, last, allOk,
                   thr, crashed, hist, rec, fp>>

\* .collect(): find_with_refs returns.
ReturnRefs ==
    /\ ss.pc = "search" /\ ss.searched = Len(ss.ref_hashes)
    /\ ss' = [ss EXCEPT !.pc = "done"]
    /\ UNCHANGED <<cache, count, threshold, cachePath, disk, files, last, allOk,
                   thr, crashed, hist, rec, fp>>

NextRefs ==
    \/ SeedNewHashes
    \/ SearchRef
    \/ ReturnRefs

SpecRefs == InitRefs /\ [][NextRefs]_vars

(***************************************************************************)
(* MatchGroup::affirmed_noreference (specification SpecAffirm).  A step is *)
(* one turn of the loop over the group's duplicates.                       *)
(***************************************************************************)
\* The durations under test, in hundredths of a second: unknown (0) and
\* three durations 5% apart.
Durations == {0, 95, 100, 105}

\* VideoStats::is_match: other.duration / self.duration within 0.95..=1.05;
\* the quotient by 0.0 is infinite or NaN and in no range.
is_match_Always(self_duration, other_duration) == TRUE

is_match(self_duration, other_duration) ==
    /\ self_duration /= 0
    /\ 95 * self_duration <= 100 * other_duration
    /\ 100 * other_duration <= 105 * self_duration

\* The MatchGroup of one path: std::iter::once(..).into()
MatchGroup_once(item) == MatchGroup_new(<<item>>)

\* fn insert(group, item): push and sort_by_key
MatchGroup_insert(group, item) ==
    [group EXCEPT !.duplicates = sort_by_key(Append(@, item))]

\* The first group of ret (0: none) whose first duplicate the candidate
\* matches.
FirstMatched(ret, stats, cand_entry) ==
    LET matched(g) == /\ ret[g].duplicates /= <<>>
                      /\ is_match(stats[cand_entry], stats[ret[g].duplicates[1]])
        hits == {g \in 1..Len(ret) : matched(g)}
    IN  IF hits = {} THEN 0 ELSE CHOOSE g \in hits : \A h \in hits : g <= h

InitAffirm ==
    /\ \E duplicates \in HashLists :
          \E stats \in [Range(duplicates) -> Durations] :
             ss = [pc |-> "loop", group |-> MatchGroup_new(duplicates),
                   stats |-> stats, next |-> 1, ret |-> <<>>, affirmed |-> <<>>]
    /\ cache = EmptyMap /\ count = 0 /\ threshold = 1 /\ cachePath = CacheBin
    /\ disk = NoDisk /\ files = Unused /\ last = NoCall /\ allOk = TRUE
    /\ thr = Unused /\ crashed = FALSE /\ hist = {} /\ rec = Unused /\ fp = Unused

\* One turn of `for cand_entry in self.duplicates()`: the candidate is
\* inserted into the first group it matches, and a group of the candidate
\* alone is pushed.
AffirmEntry ==
    /\ ss.pc = "loop" /\ ss.next <= Len(ss.group.duplicates)
    /\ LET cand_entry == ss.group.duplicates[ss.next]
           g == FirstMatched(ss.ret, ss.stats, cand_entry)
           inserted == IF g = 0 THEN ss.ret
                       ELSE [ss.ret EXCEPT ![g] = MatchGroup_insert(@, cand_entry)]
       IN  ss' = [ss EXCEPT !.next = @ + 1,
                            !.ret = Append(inserted, MatchGroup_once(cand_entry))]
    /\ UNCHANGED <<cache, count, threshold, cachePath, disk, files, last, allOk,
                   thr, crashed, hist, rec, fp>>

\* ret.into_iter().filter(|group| group.len() > 1).collect()
AffirmReturn ==
    /\ ss.pc = "loop" /\ ss.next > Len(ss.group.duplicates)
    /\ ss' = [ss EXCEPT !.pc = "done",
                        !.affirmed = SelectSeq(ss.ret,
                                               LAMBDA group : Len(group.duplicates) > 1)]
    /\ UNCHANGED <<cache, count, threshold, cachePath, disk, files, last, allOk,
                   thr, crashed, hist, rec, fp>>

NextAffirm ==
    \/ AffirmEntry
    \/ AffirmReturn

SpecAffirm == InitAffirm /\ [][NextAffirm]_vars

(***************************************************************************)
(* The projections of a FileSet as lists: enumerate_from_fs walks each     *)
(* source path in turn, sorts and dedups; enumerate_from_cache filters the *)
(* keys of the cache.                                                      *)
(***************************************************************************)
\* Ord of PathBuf on the files of the model, component by component:
\* r/a.mp4 < r/b.mp4 < r/g.PNG < r/x/c.mp4.
PathOrder == <<FileA, FileB, FileG, FileX>>
PathRank(p) == CHOOSE i \in 1..Len(PathOrder) : PathOrder[i] = p

\* WalkDir::new(root) filtered by should_keep: the files below root that
\* are kept, in any order the directories give them.
WalkDir(fset, fs, root) ==
    Orders({p \in DOMAIN fs : is_ancestor_of(root, p) /\ should_keep(fset, fs, p)})

\* source_paths.iter().flat_map(WalkDir::new): the walks one after another.
RECURSIVE WalkAll(_, _, _)
WalkAll(fset, fs, roots) ==
    IF roots = <<>> THEN {<<>>}
    ELSE {a \o b : a \in WalkDir(fset, fs, Head(roots)),
                   b \in WalkAll(fset, fs, Tail(roots))}

\* Vec::sort
RECURSIVE PathSort(_)
PathSort(paths) ==
    IF paths = <<>> THEN <<>>
    ELSE LET sorted == PathSort(Tail(paths))
             e == Head(paths)
         IN  SelectSeq(sorted, LAMBDA x : PathRank(x) < PathRank(e))
                \o <<e>>
                \o SelectSeq(sorted, LAMBDA x : PathRank(x) >= PathRank(e))

\* Vec::dedup: consecutive equal elements are removed.
RECURSIVE Dedup(_)
Dedup(paths) ==
    IF Len(paths) < 2 THEN paths
    ELSE IF paths[1] = paths[2] THEN Dedup(Tail(paths))
         ELSE <<paths[1]>> \o Dedup(Tail(paths))

\* The lists enumerate_from_fs_inner can leave in enumerated_paths.
enumerate_from_fs(fset, fs) ==
    {Dedup(PathSort(walked)) : walked \in WalkAll(fset, fs, fset.source_paths)}

\* enumerate_from_cache_inner, as the set of the paths it collects.
enumerate_from_cache(fset, m) == {k \in DOMAIN m : Includes(fset, k)}

(***************************************************************************)
(* populate_new_and_ref_hashes (specification SpecShadow): the candidate   *)
(* and the reference projections of the cache, each side excluding the     *)
(* roots of the other side that lie below one of its own.                  *)
(***************************************************************************)
\* The directories given as roots, nested three deep, and a file in each.
ShadowDirs == << <<"a">>, <<"a", "b">>, <<"a", "b", "c">>, <<"d">> >>
ShadowFiles == {Append(ShadowDirs[i], "f.mp4") : i \in 1..Len(ShadowDirs)}

\* The lists of roots under test: any of the directories, in their order.
DirLists ==
    {SelectSeq(ShadowDirs, LAMBDA dir : dir \in S) : S \in SUBSET Range(ShadowDirs)}

\* The user's --exclude lists under test.
ExclLists == {<<>>, << <<"a", "b", "c">> >>, << <<"d">> >>}

\* The cache holds a hash for every file.
ShadowCache == [k \in ShadowFiles |-> FreshEntry]

\* excl_dirs_from_deeper_paths
excl_dirs_from_deeper_paths(dirs, maybe_deeper_paths) ==
    SelectSeq(maybe_deeper_paths,
              LAMBDA maybe_deeper_path :
                  \E i \in 1..Len(dirs) : is_ancestor_of(dirs[i], maybe_deeper_path))

\* get_hashes_from_cache: the paths FileSet::new(incl_dirs, excl_dirs)
\* enumerates from the cache.
get_hashes_from_cache(m, incl_dirs, excl_dirs) ==
    enumerate_from_cache([source_paths |-> incl_dirs, excl_paths |-> excl_dirs], m)

InitShadow ==
    /\ \E cand_dirs \in DirLists, ref_dirs \in DirLists, excl_dirs \in ExclLists :
          ss = [pc |-> "call", cand_dirs |-> cand_dirs, ref_dirs |-> ref_dirs,
                excl_dirs |-> excl_dirs, ref_hashes |-> {}, new_hashes |-> {},
                result |-> "none"]
    /\ cache = ShadowCache /\ count = 0 /\ threshold = 1 /\ cachePath = CacheBin
    /\ disk = NoDisk /\ files = Unused /\ last = NoCall /\ allOk = TRUE
    /\ thr = Unused /\ crashed = FALSE /\ hist = {} /\ rec = Unused /\ fp = Unused

\* return Err(LibError::SamePathInRefAndCandError(dup_paths))
SamePathInRefAndCand ==
    /\ ss.pc = "call"
    /\ Range(ss.ref_dirs) \cap Range(ss.cand_dirs) /= {}
    /\ ss' = [ss EXCEPT !.pc = "done", !.result = "SamePathInRefAndCandError"]
    /\ UNCHANGED <<cache, count, threshold, cachePath, disk, files, last, allOk,
                   thr, crashed, hist, rec, fp>>

\* let ref_hashes = ..
GetRefHashes ==
    /\ ss.pc = "call"
    /\ Range(ss.ref_dirs) \cap Range(ss.cand_dirs) = {}
    /\ LET ref_extra_excls ==
               excl_dirs_from_deeper_paths(ss.ref_dirs, ss.cand_dirs) \o ss.excl_dirs
       IN  ss' = [ss EXCEPT
                    !.pc = "new",
                    !.ref_hashes =
                        IF ss.ref_dirs /= <<>>
                        THEN get_hashes_from_cache(cache, ss.ref_dirs, ref_extra_excls)
                        ELSE {}]
    /\ UNCHANGED <<cache, count, threshold, cachePath, disk, files, last, allOk,
                   thr, crashed, hist, rec, fp>>

\* let new_hashes = .. and Ok((new_hashes, ref_hashes, ret_errs))
GetNewHashes ==
    /\ ss.pc = "new"
    /\ LET new_extra_excls ==
               excl_dirs_from_deeper_paths(ss.cand_dirs, ss.ref_dirs) \o ss.excl_dirs
       IN  ss' = [ss EXCEPT
                    !.pc = "done", !.result = "Ok",
                    !.new_hashes =
                        get_hashes_from_cache(cache, ss.cand_dirs, new_extra_excls)]
    /\ UNCHANGED <<cache, count, threshold, cachePath, disk, files, last, allOk,
                   thr, crashed, hist, rec, fp>>

NextShadow ==
    \/ SamePathInRefAndCand
    \/ GetRefHashes
    \/ GetNewHashes

SpecShadow == InitShadow /\ [][NextShadow]_vars

-----------------------------------------------------------------------------
\* SpecRun: a run of the application that updates the cache
\* (run_app, run_app_inner with update_cache_only, update_hash_cache): the
\* reconciliation of SpecRec, then cache.save()?, then the exit code.

\* update_hash_cache: update_using_fs(..)? returned the fatal error, which
\* run_app_inner passes on with `?`; run_app prints it and returns 1.
RunFatal ==
    /\ rec.phase = "done" /\ rec.result = "Err"
    /\ rec' = [rec EXCEPT !.phase = "exit"]
    /\ ss' = [save |-> "none", code |-> 1]
    /\ UNCHANGED <<cache, count, threshold, cachePath, disk, files, last, allOk,
                   thr, crashed, hist, fp>>

\* update_hash_cache: update_using_fs returned Ok(errs), the errors join
\* nonfatal_errs; then cache.save()?.  BaseFsCache::save writes the file
\* only when the counter is not 0 and leaves the counter alone.  run_app
\* returns 1 for Err and 0 for Ok(nonfatal_errs).
RunSave ==
    /\ rec.phase = "done" /\ rec.result = "Ok"
    /\ rec' = [rec EXCEPT !.phase = "exit"]
    /\ LET save == SaveNeeded(count)
       IN  \E o \in IF save THEN RecSaveOutcomes(disk, cachePath, cache)
                            ELSE NoSave(disk) :
               /\ disk' = o.disk
               /\ ss' = [save |-> IF save THEN o.res ELSE "none",
                         code |-> IF o.res = "Ok" THEN 0 ELSE 1]
    /\ UNCHANGED <<cache, count, threshold, cachePath, files, last, allOk,
                   thr, crashed, hist, fp>>

NextRun ==
    \/ EnumerateFails
    \/ Enumerate
    \/ \E w \in Workers, k \in AllKeys : RemovalFiltered(w, k)
    \/ \E w \in Workers, k \in AllKeys : RemovalWrite(w, k)
    \/ \E w \in Workers : WorkerFetchAdd(w)
    \/ \E w \in Workers : WorkerUpdate(w)
    \/ RemovalsDone
    \/ \E w \in Workers, p \in AllKeys : GetInsertContainsKey(w, p)
    \/ \E w \in Workers : GetInsertValIsStale(w)
    \/ \E w \in Workers : GetInsertWrite(w)
    \/ \E w \in Workers : GetInsertGet(w)
    \/ UpdateFromFsReturns
    \/ RunFatal
    \/ RunSave

SpecRun == InitRec /\ [][NextRun]_vars

(***************************************************************************)
(* DupFinderCache (specification SpecEntry): ProcessingFsCache over        *)
(* DupFinderCacheEntry, whose processing function is create_load_fn.  A    *)
(* source file is described by what the three probes answer for it:        *)
(* is_video_file, the hash closure and the stats closure.  `ss` records    *)
(* the last call.                                                          *)
(***************************************************************************)
EntryKeys == {FileA}

\* The mtimes a source file takes: 0, 2 and 3 whole seconds after the epoch.
EntryTimes == {0, 2 * TicksPerSec, 3 * TicksPerSec}

\* What is_video_file, create_hash_fn and create_stats_fn return for a file.
IsVideoResults == {"true", "false", "Err"}
HashResults == {"Ok", "VideoTooShortError", "ImgOrFfmpegError"}
StatsResults == {"Ok", "Err"}

Probed(t, v, h, s) == [exists |-> TRUE, mtime |-> t, video |-> v, hash |-> h, stats |-> s]
NotProbed == [exists |-> FALSE, mtime |-> 0, video |-> "Err", hash |-> "Ok", stats |-> "Ok"]

ProbedFiles ==
    {NotProbed} \cup {Probed(t, v, h, s) : t \in EntryTimes, v \in IsVideoResults,
                                           h \in HashResults, s \in StatsResults}

\* impl From<(Result<TemporalHash, ..>, Result<VideoStats, ..>)> for
\* DupFinderCacheEntry: the match, arm by arm.
DupFinderCacheEntry_from(hash_creation_result, stats_creation_result) ==
    CASE hash_creation_result = "Ok" /\ stats_creation_result = "Ok" -> "Video"
      [] hash_creation_result = "Ok" /\ stats_creation_result # "Ok" -> "ProcessingError"
      [] hash_creation_result = "VideoTooShortError" /\ stats_creation_result = "Ok"
            -> "ShortVideo"
      [] hash_creation_result # "Ok" /\ stats_creation_result = "Ok" -> "ProcessingError"
      [] OTHER -> "ProcessingError"

\* DupFinderCache::create_load_fn: the closure.
create_load_fn(f) ==
    IF f.video = "true"
    THEN DupFinderCacheEntry_from(f.hash, f.stats)
    ELSE "NotVideo"

\* The record of a call of DupFinderCache / ProcessingFsCache.
EntryCall(op, key, res, value, invoked) ==
    [op |-> op, key |-> key, res |-> res, value |-> value, invoked |-> invoked,
     prevMap |-> cache, prevCount |-> count, prevDisk |-> disk]

NoEntryCall ==
    [op |-> "new", key |-> <<>>, res |-> "Ok", value |-> "none", invoked |-> FALSE,
     prevMap |-> EmptyMap, prevCount |-> 0, prevDisk |-> NoDisk]

InitEntry ==
    /\ cache = EmptyMap
    /\ count = 0
    /\ threshold \in 1..MaxThreshold
    /\ cachePath = CacheBin
    /\ disk = NoDisk
    /\ files \in [EntryKeys -> ProbedFiles]
    /\ ss = NoEntryCall
    /\ last = NoCall /\ allOk = TRUE
    /\ thr = Unused /\ crashed = FALSE /\ hist = {} /\ rec = Unused /\ fp = Unused

\* BaseFsCache::get / ProcessingFsCache::get: the value, or KeyMissingError.
GetResult(m, key) ==
    IF key \in DOMAIN m
    THEN [res |-> "Ok", value |-> m[key].value]
    ELSE [res |-> "KeyMissingError", value |-> "none"]

\* A call that changes no cache state.
EntryReturns(op, key, res, value) ==
    /\ ss' = EntryCall(op, key, res, value, FALSE)
    /\ UNCHANGED <<cache, count, threshold, cachePath, disk, files, last, allOk,
                   thr, crashed, hist, rec, fp>>

\* force_insert: the processing function, BaseFsCache::insert (with its
\* threshold-triggered save)?, then get.
EntryForceInsert(op, key) ==
    LET save == ThresholdReached(count, threshold)
        m    == MapInsert(cache, key,
                          MtimeCacheEntry(FsMtime(files, key), create_load_fn(files[key])))
    IN  \E o \in IF save THEN RecSaveOutcomes(disk, cachePath, m) ELSE NoSave(disk) :
            /\ cache' = m
            /\ count' = CountAfter(count, threshold)
            /\ disk' = o.disk
            /\ ss' = IF o.res = "Ok"
                     THEN EntryCall(op, key, "Ok", GetResult(m, key).value, TRUE)
                     ELSE EntryCall(op, key, o.res, "none", TRUE)
            /\ UNCHANGED <<threshold, cachePath, files, last, allOk, thr, crashed,
                           hist, rec, fp>>

\* ProcessingFsCache::get_insert (fetch_or_insert).
EntryGetInsert(key) ==
    LET key_present == key \in DOMAIN cache
    IN  IF ~FsMtimeOk(files, key)
        THEN EntryReturns("get_insert", key, "CacheItemIoError", "none")
        ELSE IF ~key_present \/ ValIsStale(cache[key].cache_mtime, FsMtime(files, key))
             THEN EntryForceInsert("get_insert", key)
             ELSE EntryReturns("get_insert", key, GetResult(cache, key).res,
                               GetResult(cache, key).value)

\* ProcessingFsCache::get (fetch).
EntryGet(key) ==
    LET r == GetResult(cache, key)
    IN  EntryReturns("get", key, r.res, r.value)

\* The source file changes: its content, its mtime, or it is deleted.
EntryFileChanges(key, f) ==
    /\ files[key] # f
    /\ files' = [files EXCEPT ![key] = f]
    /\ ss' = EntryCall("file", key, "Ok", "none", FALSE)
    /\ UNCHANGED <<cache, count, threshold, cachePath, disk, last, allOk, thr,
                   crashed, hist, rec, fp>>

NextEntry ==
    \/ \E k \in EntryKeys : EntryGetInsert(k)
    \/ \E k \in EntryKeys : EntryGet(k)
    \/ \E k \in EntryKeys, f \in ProbedFiles : EntryFileChanges(k, f)

SpecEntry == InitEntry /\ [][NextEntry]_vars

-----------------------------------------------------------------------------
\* SpecFinal: concurrent insert / remove calls of SpecConc run to completion,
\* then one call of save() on its own.

\* The final save() has been called.
Finalized == last.op # "new"

\* BaseFsCache::save called when every other call has returned: the load of
\* the counter, then save_inner or nothing.
FinalSave ==
    /\ ~crashed /\ ~Finalized
    /\ \A t \in Threads : thr[t].pc = "idle"
    /\ LET save == SaveNeeded(count)
       IN  \E o \in IF save THEN SaveOutcomes(disk, cachePath, cache)
                            ELSE NoSave(disk) :
               /\ disk' = o.disk
               /\ last' = Call("save", <<>>, o.res, save, FALSE)
    /\ UNCHANGED <<cache, count, threshold, cachePath, files, allOk, thr, crashed,
                   hist, rec, fp, ss>>

NextFinal ==
    \/ \E t \in Threads, k \in Keys : ~Finalized /\ InsertFetchAdd(t, k)
    \/ \E t \in Threads : InsertWrite(t)
    \/ \E t \in Threads, k \in Keys : ~Finalized /\ RemoveWrite(t, k)
    \/ \E t \in Threads : RemoveFetchAdd(t)
    \/ \E t \in Threads : UpdateTransactionCount(t)
    \/ \E t \in Threads : SaveCreateDir(t)
    \/ \E t \in Threads : SaveCreateTemp(t)
    \/ \E t \in Threads : SaveReadLock(t)
    \/ \E t \in Threads : SaveWrite(t)
    \/ \E t \in Threads : SaveRename(t)
    \/ FinalSave

SpecFinal == InitConc /\ [][NextFinal]_vars

-----------------------------------------------------------------------------
\* SpecCross: the concurrent insert / remove calls of SpecConc with a count
\* of the fetch_adds between threshold crossings.  `ss` holds the count:
\*   since     fetch_adds after the last one that returned threshold - 1,
\*   crossings fetch_adds that returned threshold - 1,
\*   gaps      for every crossing, the fetch_adds after the crossing before
\*             it (or after the start), itself included,
\*   resets    store(0) calls, and stored: the counter values they left.
NoCrossing == [since |-> 0, crossings |-> 0, gaps |-> {}, resets |-> 0, stored |-> {}]

InitCross ==
    /\ cache = EmptyMap
    /\ count = 0
    /\ threshold \in 1..MaxThreshold
    /\ cachePath = CacheBin
    /\ disk = NoDisk
    /\ files = Unused
    /\ last = NoCall
    /\ allOk = TRUE
    /\ thr = [t \in Threads |-> IdleThread]
    /\ crashed = FALSE
    /\ hist = {EmptyMap}
    /\ ss = NoCrossing
    /\ rec = Unused /\ fp = Unused

\* cache_modified_count.fetch_add(1, Relaxed) returned prev_count.
Counted(prev_count) ==
    IF prev_count = threshold - 1
    THEN [ss EXCEPT !.since = 0, !.crossings = @ + 1,
                    !.gaps = @ \cup {ss.since + 1}]
    ELSE [ss EXCEPT !.since = @ + 1]

\* insert: cache_modified_count.fetch_add(1, Relaxed)
CrossInsertFetchAdd(t, key) ==
    /\ CanCall(t)
    /\ count' = FetchAdd(count)
    /\ thr' = [thr EXCEPT ![t].pc = "ins_write", ![t].key = key, ![t].prev = count]
    /\ ss' = Counted(count)
    /\ UNCHANGED <<cache, threshold, cachePath, disk, files, last, allOk, crashed,
                   hist, rec, fp>>

\* remove: cache_modified_count.fetch_add(1, Relaxed)
CrossRemoveFetchAdd(t) ==
    /\ Running(t, "rem_add")
    /\ count' = FetchAdd(count)
    /\ thr' = [thr EXCEPT ![t].pc = "update", ![t].prev = count]
    /\ ss' = Counted(count)
    /\ UNCHANGED <<cache, threshold, cachePath, disk, files, last, allOk, crashed,
                   hist, rec, fp>>

\* update_transaction_count_and_save_if_necessary: store(0) and save_inner,
\* or return.
CrossUpdateTransactionCount(t) ==
    /\ Running(t, "update")
    /\ IF ThresholdReached(thr[t].prev, threshold)
       THEN /\ count' = 0
            /\ thr' = [thr EXCEPT ![t].pc = "sv_dir"]
            /\ ss' = [ss EXCEPT !.resets = @ + 1, !.stored = @ \cup {count'}]
       ELSE /\ count' = count
            /\ thr' = [thr EXCEPT ![t] = Returned(t)]
            /\ ss' = ss
    /\ UNCHANGED <<cache, threshold, cachePath, disk, files, last, allOk, crashed,
                   hist, rec, fp>>

NextCross ==
    \/ \E t \in Threads, k \in Keys : CrossInsertFetchAdd(t, k)
    \/ \E t \in Threads : InsertWrite(t)
    \/ \E t \in Threads, k \in Keys : RemoveWrite(t, k)
    \/ \E t \in Threads : CrossRemoveFetchAdd(t)
    \/ \E t \in Threads : CrossUpdateTransactionCount(t)
    \/ \E t \in Threads : SaveCreateDir(t)
    \/ \E t \in Threads : SaveCreateTemp(t)
    \/ \E t \in Threads : SaveReadLock(t)
    \/ \E t \in Threads : SaveWrite(t)
    \/ \E t \in Threads : SaveRename(t)

SpecCross == InitCross /\ [][NextCross]_vars

-----------------------------------------------------------------------------
\* SpecFindLive: find_all in either mode, run by threads that keep running:
\* the caller's thread and the workers of the pool take their next step
\* whenever they have one.
InitFindAny == FindAll(TRUE) \/ FindAll(FALSE)

NextFindAny ==
    \/ SeedAll
    \/ LoopTest
    \/ SearchDeterministic
    \/ \E w \in Workers, i \in 1..MaxHashes : StartQuery(w, i)
    \/ \E w \in Workers : Load1(w)
    \/ \E w \in Workers : Load2(w)
    \/ \E w \in Workers : Store(w)
    \/ \E w \in Workers : RootStore(w)
    \/ EndBatch

SpecFindLive == InitFindAny /\ [][NextFindAny]_vars /\ WF_vars(NextFindAny)

(***************************************************************************)
(* Fingerprints read back from the cache file (specification SpecLut).     *)
(* TemporalHash derives Serialize and Deserialize: bincode writes thash,   *)
(* shash and num_frames one after the other and reads them back the same   *)
(* way, without a test on any of them.                                     *)
(***************************************************************************)

\* bincode::serialize of a TemporalHash: the words of thash, the words of
\* shash, then num_frames (src_path, which no distance reads, is left out).
TemporalHashSerialize(h) == h.thash \o h.shash \o <<h.num_frames>>

\* bincode::deserialize of a TemporalHash (derived): the three fields in
\* order, as found.
TemporalHashDeserialize(image) ==
    [res |-> "Ok",
     thash |-> SubSeq(image, 1, TEMPORAL_HASH_QWORDS),
     shash |-> SubSeq(image, TEMPORAL_HASH_QWORDS + 1,
                      TEMPORAL_HASH_QWORDS + SPATIAL_HASH_QWORDS),
     num_frames |-> image[TEMPORAL_HASH_QWORDS + SPATIAL_HASH_QWORDS + 1]]

\* The num_frames fields of the cache files under test: the counts
\* TemporalHash::new stores and the u32 values next to them.
StoredFrameCounts == 0..(HASH_NUM_IMAGES + 1)

\* A cache file entry of the right length: a first spatial word, zeroes, and
\* a num_frames field.
HashImage(first, n) ==
    ZeroPadded(<<>>, TEMPORAL_HASH_QWORDS)
        \o ZeroPadded(<<first>>, SPATIAL_HASH_QWORDS) \o <<n>>

\* load_cache_from_disk of a file this program saved: the fingerprint of
\* slot src, serialized by save_inner and read back into an empty slot.
ReloadHash(slot, src) ==
    /\ fp[slot] = NoHash /\ fp[src].res = "Ok"
    /\ fp' = [fp EXCEPT ![slot] = TemporalHashDeserialize(TemporalHashSerialize(fp[src])),
                        !.d = NoDistance]
    /\ UNCHANGED <<cache, count, threshold, cachePath, disk, files, last, allOk,
                   thr, crashed, hist, rec, ss>>

\* load_cache_from_disk of a cache file found at the cache path: an entry
\* that decodes, read into an empty slot.
DecodeHash(slot, first, n) ==
    /\ fp[slot] = NoHash
    /\ fp' = [fp EXCEPT ![slot] = TemporalHashDeserialize(HashImage(first, n)),
                        !.d = NoDistance]
    /\ UNCHANGED <<cache, count, threshold, cachePath, disk, files, last, allOk,
                   thr, crashed, hist, rec, ss>>

NextLut ==
    \/ \E slot \in Slots, n \in FrameCounts, first \in FirstWords,
          rest \in {0, FullWord}, tword \in {0, 1, FullWord} :
          NewHash(slot, n, first, rest, tword)
    \/ \E slot \in Slots, src \in Slots : ReloadHash(slot, src)
    \/ \E slot \in Slots, first \in FirstWords, n \in StoredFrameCounts :
          DecodeHash(slot, first, n)
    \/ \E x \in Slots, y \in Slots : Distance(x, y)

SpecLut == InitDist /\ [][NextLut]_vars

(***************************************************************************)
(* ResolutionThunk (specification SpecResolve).  The thunk of a match      *)
(* group of three files takes one choice string and trashes and moves      *)
(* files.  Two versions of the type are in the repository: the one of the  *)
(* library (matches/match_group_resolution_thunk.rs) and the one of        *)
(* vid_dup_finder_app (resolution_thunk.rs); both are modelled.  A path is *)
(* a root (the filesystem, or the trash directory that mirrors it), a      *)
(* directory, a stem, an extension and the " (n)" a move appends to the    *)
(* stem.  The state is held in ss; the failures of the operating system    *)
(* in rename and create_dir_all are not modelled.                          *)
(***************************************************************************)
ThunkDirs == {"d1", "d2"}
ThunkStems == {"a", "b", "c"}
ThunkExts == {"mp4", "mkv"}
Suffixes == <<"", " (1)", " (2)">>

ThunkPath(root, dir, stem, ext) ==
    [root |-> root, dir |-> dir, stem |-> stem, ext |-> ext, suffix |-> ""]

ThunkPaths ==
    [root : {"fs", "trash"}, dir : ThunkDirs, stem : ThunkStems, ext : ThunkExts,
     suffix : {Suffixes[i] : i \in 1..Len(Suffixes)}]

\* A thunk's entries as from_matchgroup builds them: the reference, then the
\* duplicates (equal filename lengths: the sort leaves them in place).
ThunkEntry(filename, is_reference) ==
    [filename |-> filename, is_reference |-> is_reference]
ThunkEntries ==
    <<ThunkEntry(ThunkPath("fs", "d1", "a", "mp4"), TRUE),
      ThunkEntry(ThunkPath("fs", "d2", "b", "mkv"), FALSE),
      ThunkEntry(ThunkPath("fs", "d2", "c", "mp4"), FALSE)>>

\* self.entries.get(idx) and self.entries[idx], idx counted from 0.
EntryGetIsSome(idx) == idx + 1 \in DOMAIN ThunkEntries
EntryAt(idx) == ThunkEntries[idx + 1]

\* Path::exists on a filesystem fs: path -> the data of the file, or NoData.
NoData == <<>>
ThunkPathExists(fs, p) == fs[p] # NoData

\* with_extension(recipient, donor): a donor without extension gives none.
with_extension(recipient, donor) ==
    IF donor.ext = "" THEN recipient ELSE [recipient EXCEPT !.ext = donor.ext]

\* with_basename(recipient, donor): the donor's file name in the
\* recipient's directory.
with_basename(recipient, donor) ==
    [recipient EXCEPT !.stem = donor.stem, !.ext = donor.ext, !.suffix = donor.suffix]

\* get_trash_path: the path below the trash directory.
get_trash_path(p) == [p EXCEPT !.root = "trash"]

\* get_new_name_if_path_already_exists: p, or the first of "stem (1)",
\* "stem (2)", ... that is free.
RECURSIVE NewNameFrom(_, _, _)
NewNameFrom(fs, p, i) ==
    LET ret == [p EXCEPT !.suffix = Suffixes[i]]
    IN  IF ThunkPathExists(fs, ret) /\ i < Len(Suffixes) THEN NewNameFrom(fs, p, i + 1)
        ELSE ret
get_new_name_if_path_already_exists(fs, p) == NewNameFrom(fs, p, 1)

\* delete_path: remove_file.
delete_path(fs, path) ==
    IF ~ThunkPathExists(fs, path) THEN [res |-> "DeleteFileFailure", fs |-> fs]
    ELSE [res |-> "Ok", fs |-> [fs EXCEPT ![path] = NoData]]

\* move_path: rename to the free name for dest.
move_path(fs, source, dest) ==
    IF ~ThunkPathExists(fs, source) THEN [res |-> "SourceFileMissing", fs |-> fs]
    ELSE LET d == get_new_name_if_path_already_exists(fs, dest)
         IN  [res |-> "Ok", fs |-> [fs EXCEPT ![d] = fs[source], ![source] = NoData]]

\* trash_file: a file whose copy is in the trash already (equal SHA-256) is
\* deleted, any other is moved below the trash directory.
trash_file(fs, old_path) ==
    LET new_path == get_trash_path(old_path)
    IN  IF ~ThunkPathExists(fs, new_path) THEN move_path(fs, old_path, new_path)
        ELSE IF ~ThunkPathExists(fs, old_path) THEN [res |-> "FileOpenError", fs |-> fs]
        ELSE IF fs[old_path] = fs[new_path] THEN delete_path(fs, old_path)
        ELSE move_path(fs, old_path, new_path)

\* for entry in entries_to_trash { trash_file(&entry.filename)?; }: the
\* filesystem after the loop and the files trash_file was called on.
RECURSIVE TrashLoop(_, _, _)
TrashLoop(fs, entries, trashed) ==
    IF entries = <<>> THEN [res |-> "Ok", fs |-> fs, trashed |-> trashed]
    ELSE LET r == trash_file(fs, Head(entries).filename)
             t == trashed \cup {Head(entries).filename}
         IN  IF r.res # "Ok" THEN [res |-> r.res, fs |-> r.fs, trashed |-> t]
             ELSE TrashLoop(r.fs, Tail(entries), t)

\* A choice string is a sequence of tokens: numerals, the separators " at "
\* and " as ", and a word that is neither.
Numerals == {"0", "1", "2", "3"}
NumeralValue(tok) ==
    CASE tok = "0" -> 0 [] tok = "1" -> 1 [] tok = "2" -> 2 [] OTHER -> 3

Choices ==
    {<<>>, <<"x">>}
    \cup {<<c>> : c \in Numerals}
    \cup {<<c, "at", l>> : c \in Numerals, l \in Numerals \cup {"x"}}
    \cup {<<c, "as", n>> : c \in Numerals, n \in Numerals}
    \cup {<<c, "at", l, "as", n>> : c \in Numerals, l \in Numerals, n \in Numerals}
    \cup {<<c, "as", n, "at", l>> : c \in Numerals, l \in Numerals, n \in Numerals}

\* choice.matches(sep).count()
CountOf(choice, sep) == Cardinality({i \in DOMAIN choice : choice[i] = sep})

\* choice.split(sep) for a separator that occurs once: the two parts.
FirstAt(choice, sep) == CHOOSE i \in DOMAIN choice : choice[i] = sep
SplitBefore(choice, sep) == SubSeq(choice, 1, FirstAt(choice, sep) - 1)
SplitAfter(choice, sep) == SubSeq(choice, FirstAt(choice, sep) + 1, Len(choice))

\* str::parse::<usize>: one numeral.
ParsesAsUsize(part) == Len(part) = 1 /\ part[1] \in Numerals

NoInstruction == [kind |-> "none", contents_idx |-> 0, location_idx |-> 0, name_idx |-> 0]
Instruction(kind, contents, location, name) ==
    [kind |-> kind, contents_idx |-> NumeralValue(contents[1]),
     location_idx |-> NumeralValue(location[1]), name_idx |-> NumeralValue(name[1])]
ParseErr(e) == [res |-> e, instr |-> NoInstruction]
ParseOk(i) == [res |-> "Ok", instr |-> i]

\* parse_choice of the library: "c at l as n", "c at l", or "i".  Keep and
\* Move carry the indices they have; the others are filled with contents_idx.
parse_choice(choice) ==
    IF CountOf(choice, "as") = 1 /\ CountOf(choice, "at") = 1
    THEN LET first == SplitBefore(choice, "at")
             after == SplitAfter(choice, "at")
             rest  == IF CountOf(after, "as") = 1
                      THEN <<SplitBefore(after, "as"), SplitAfter(after, "as")>>
                      ELSE <<after>>
         IN  IF ~ParsesAsUsize(first) THEN ParseErr("ParseContentsDonorError")
             ELSE IF ~ParsesAsUsize(rest[1]) THEN ParseErr("ParseLocationDonorError")
             ELSE IF Len(rest) < 2 \/ ~ParsesAsUsize(rest[2])
                  THEN ParseErr("ParseNameDonorError")
             ELSE ParseOk(Instruction("MoveAndRename", first, rest[1], rest[2]))
    ELSE IF CountOf(choice, "at") = 1
    THEN LET contents == SplitBefore(choice, "at")
             location == SplitAfter(choice, "at")
         IN  IF ~ParsesAsUsize(contents) THEN ParseErr("ParseContentsDonorError")
             ELSE IF ~ParsesAsUsize(location) THEN ParseErr("ParseLocationDonorError")
             ELSE ParseOk(Instruction("Move", contents, location, contents))
    ELSE IF ~ParsesAsUsize(choice) THEN ParseErr("ParseChosenVideoError")
         ELSE ParseOk(Instruction("Keep", choice, choice, choice))

\* validate_choice of the library: the indices the instruction carries.
validate_choice(choice) ==
    CASE choice.kind = "Keep" -> EntryGetIsSome(choice.contents_idx)
      [] choice.kind = "Move" ->
            EntryGetIsSome(choice.location_idx) /\ EntryGetIsSome(choice.contents_idx)
      [] OTHER ->
            /\ EntryGetIsSome(choice.location_idx)
            /\ EntryGetIsSome(choice.contents_idx)
            /\ EntryGetIsSome(choice.name_idx)

\* What a call of resolve leaves: its result, the filesystem, the files
\* trash_file was called on, the instruction and the destination computed.
Resolved(res, fs, trashed, instr, valid, need_move, new_name) ==
    [res |-> res, fs |-> fs, trashed |-> trashed, instr |-> instr, valid |-> valid,
     need_move |-> need_move, new_name |-> new_name]

NoPath == ThunkPath("fs", "d1", "a", "mp4")

\* The entries that are not e (PartialEq on the whole entry).
EntriesOtherThan(e) == SelectSeq(ThunkEntries, LAMBDA x : x # e)

\* all(|e| e.filename != new_name) and all(|e| e.filename == new_name)
NoneNamed(entries, new_name) ==
    \A i \in DOMAIN entries : entries[i].filename # new_name
AllNamed(entries, new_name) ==
    \A i \in DOMAIN entries : entries[i].filename = new_name

\* The trashing phase and the move that follows it, shared by the arms.
TrashThenMove(fs, instr, entries_to_trash, contents_entry, need_move, new_name) ==
    LET t == TrashLoop(fs, entries_to_trash, {})
        m == move_path(t.fs, contents_entry.filename, new_name)
    IN  IF t.res # "Ok" \/ ~need_move
        THEN Resolved(t.res, t.fs, t.trashed, instr, TRUE, need_move, new_name)
        ELSE Resolved(m.res, m.fs, t.trashed, instr, TRUE, need_move, new_name)

\* The three arms of resolve of the library.
ResolveKeep(fs, instr) ==
    LET keep_entry == EntryAt(instr.contents_idx)
        others == SelectSeq(ThunkEntries, LAMBDA x : x.filename # keep_entry.filename)
    IN  IF ~ThunkPathExists(fs, keep_entry.filename)
        THEN Resolved("MissingFileToPreserve", fs, {}, instr, TRUE, FALSE, keep_entry.filename)
        ELSE TrashThenMove(fs, instr, others, keep_entry, FALSE, keep_entry.filename)

ResolveMove(fs, instr) ==
    LET location_entry == EntryAt(instr.location_idx)
        contents_entry == EntryAt(instr.contents_idx)
        entries_to_trash == EntriesOtherThan(contents_entry)
        new_name == with_basename(location_entry.filename, contents_entry.filename)
    IN  IF ThunkPathExists(fs, new_name) /\ NoneNamed(entries_to_trash, new_name)
        THEN Resolved("DestFileExists", fs, {}, instr, TRUE, TRUE, new_name)
        ELSE IF ~ThunkPathExists(fs, contents_entry.filename)
        THEN Resolved("MissingFileToPreserve", fs, {}, instr, TRUE, TRUE, new_name)
        ELSE TrashThenMove(fs, instr, entries_to_trash, contents_entry, TRUE, new_name)

ResolveMoveAndRename(fs, instr) ==
    LET location_entry == EntryAt(instr.location_idx)
        contents_entry == EntryAt(instr.contents_idx)
        name_entry == EntryAt(instr.name_idx)
        entries_to_trash == EntriesOtherThan(contents_entry)
        new_name_with_wrong_ext == with_basename(location_entry.filename, name_entry.filename)
        new_name == with_extension(new_name_with_wrong_ext, contents_entry.filename)
    IN  IF ThunkPathExists(fs, new_name) /\ AllNamed(entries_to_trash, new_name)
        THEN Resolved("DestFileExists", fs, {}, instr, TRUE, TRUE, new_name)
        ELSE IF ~ThunkPathExists(fs, contents_entry.filename)
        THEN Resolved("MissingFileToPreserve", fs, {}, instr, TRUE, TRUE, new_name)
        ELSE TrashThenMove(fs, instr, entries_to_trash, contents_entry, TRUE, new_name)

\* ResolutionThunk::resolve of the library.
resolve(fs, choice) ==
    LET p == parse_choice(choice)
    IN  IF p.res # "Ok" THEN Resolved(p.res, fs, {}, p.instr, FALSE, FALSE, NoPath)
        ELSE IF ~validate_choice(p.instr)
        THEN Resolved("ValidationError", fs, {}, p.instr, FALSE, FALSE, NoPath)
        ELSE CASE p.instr.kind = "Keep" -> ResolveKeep(fs, p.instr)
               [] p.instr.kind = "Move" -> ResolveMove(fs, p.instr)
               [] OTHER -> ResolveMoveAndRename(fs, p.instr)

\* parse_choice of vid_dup_finder_app: the five regular expressions, tried
\* in order.  basename_idx is held in name_idx, dirname_idx in location_idx.
IsNumeralSeq(choice, at) == \A i \in at : choice[i] \in Numerals
app_parse_choice(choice) ==
    IF Len(choice) = 5 /\ IsNumeralSeq(choice, {1, 3, 5})
          /\ choice[2] = "as" /\ choice[4] = "at"
    THEN ParseOk(Instruction("Instruction", <<choice[1]>>, <<choice[5]>>, <<choice[3]>>))
    ELSE IF Len(choice) = 5 /\ IsNumeralSeq(choice, {1, 3, 5})
          /\ choice[2] = "at" /\ choice[4] = "as"
    THEN ParseOk(Instruction("Instruction", <<choice[1]>>, <<choice[3]>>, <<choice[5]>>))
    ELSE IF Len(choice) = 3 /\ IsNumeralSeq(choice, {1, 3}) /\ choice[2] = "at"
    THEN ParseOk(Instruction("Instruction", <<choice[1]>>, <<choice[3]>>, <<choice[1]>>))
    ELSE IF Len(choice) = 3 /\ IsNumeralSeq(choice, {1, 3}) /\ choice[2] = "as"
    THEN ParseOk(Instruction("Instruction", <<choice[1]>>, <<choice[3]>>, <<choice[3]>>))
    ELSE IF Len(choice) = 1 /\ IsNumeralSeq(choice, {1})
    THEN ParseOk(Instruction("Instruction", choice, choice, choice))
    ELSE ParseErr("ParseError")

\* validate_choice of vid_dup_finder_app
app_validate_choice(choice) ==
    /\ EntryGetIsSome(choice.name_idx)
    /\ EntryGetIsSome(choice.location_idx)
    /\ EntryGetIsSome(choice.contents_idx)

\* ResolutionThunk::resolve of vid_dup_finder_app
AppResolveValid(fs, instr) ==
    LET dirname_entry == EntryAt(instr.location_idx)
        contents_entry == EntryAt(instr.contents_idx)
        basename_entry == EntryAt(instr.name_idx)
        entries_to_trash == EntriesOtherThan(contents_entry)
        need_to_move_contents ==
            ~(contents_entry = basename_entry /\ contents_entry = dirname_entry)
        new_name_with_wrong_ext == with_basename(dirname_entry.filename, basename_entry.filename)
        new_name == IF need_to_move_contents
                    THEN with_extension(new_name_with_wrong_ext, contents_entry.filename)
                    ELSE contents_entry.filename
    IN  IF need_to_move_contents /\ ThunkPathExists(fs, new_name)
              /\ NoneNamed(entries_to_trash, new_name)
        THEN Resolved("DestFileExists", fs, {}, instr, TRUE, TRUE, new_name)
        ELSE IF ~ThunkPathExists(fs, contents_entry.filename)
        THEN Resolved("MissingContentsFile", fs, {}, instr, TRUE, need_to_move_contents, new_name)
        ELSE TrashThenMove(fs, instr, entries_to_trash, contents_entry,
                           need_to_move_contents, new_name)

app_resolve(fs, choice) ==
    LET p == app_parse_choice(choice)
    IN  IF p.res # "Ok" THEN Resolved(p.res, fs, {}, p.instr, FALSE, FALSE, NoPath)
        ELSE IF ~app_validate_choice(p.instr)
        THEN Resolved("ValidationError", fs, {}, p.instr, FALSE, FALSE, NoPath)
        ELSE AppResolveValid(fs, p.instr)

\* The filesystems a thunk is resolved on: each file of the thunk is there
\* or gone, at most one other file lies next to them, and at most one file
\* of the thunk has a file at its trash path, a copy of it or another file.
EntryFiles == {ThunkEntries[i].filename : i \in DOMAIN ThunkEntries}
OtherFiles == {p \in ThunkPaths : p.root = "fs" /\ p.suffix = ""} \ EntryFiles
TrashFiles == {get_trash_path(p) : p \in EntryFiles}
FileData(p) == <<p.dir, p.stem, p.ext>>
Filesystems ==
    {[p \in ThunkPaths |->
         IF p \in present THEN <<"file">> \o FileData(p)
         ELSE IF p \in other THEN <<"other">>
         ELSE IF p \in copy THEN <<"file">> \o FileData([p EXCEPT !.root = "fs"])
         ELSE IF p \in stale THEN <<"other">>
         ELSE NoData] :
        present \in SUBSET EntryFiles,
        other \in {{}} \cup {{p} : p \in OtherFiles},
        copy \in {{}} \cup {{p} : p \in TrashFiles},
        stale \in {{}} \cup {{p} : p \in TrashFiles}}

NoResolve == Resolved("none", <<>>, {}, NoInstruction, FALSE, FALSE, NoPath)

InitResolve ==
    /\ cache = EmptyMap /\ count = 0 /\ threshold = 1 /\ cachePath = CacheBin
    /\ disk = NoDisk /\ files = Unused /\ last = NoCall /\ allOk = TRUE
    /\ thr = Unused /\ crashed = FALSE /\ hist = {} /\ rec = Unused /\ fp = Unused
    /\ \E fs \in Filesystems :
          ss = [pc |-> "idle", version |-> "none", choice |-> <<>>,
                fs0 |-> fs, call |-> NoResolve]

\* thunk.resolve(choice) of the library
Resolve(choice) ==
    /\ ss.pc = "idle"
    /\ ss' = [ss EXCEPT !.pc = "done", !.version = "library", !.choice = choice,
                        !.call = resolve(ss.fs0, choice)]
    /\ UNCHANGED <<cache, count, threshold, cachePath, disk, files, last, allOk,
                   thr, crashed, hist, rec, fp>>

\* thunk.resolve(choice) of vid_dup_finder_app
AppResolve(choice) ==
    /\ ss.pc = "idle"
    /\ ss' = [ss EXCEPT !.pc = "done", !.version = "app", !.choice = choice,
                        !.call = app_resolve(ss.fs0, choice)]
    /\ UNCHANGED <<cache, count, threshold, cachePath, disk, files, last, allOk,
                   thr, crashed, hist, rec, fp>>

NextResolve ==
    \/ \E choice \in Choices : Resolve(choice)
    \/ \E choice \in Choices : AppResolve(choice)

SpecResolve == InitResolve /\ [][NextResolve]_vars

(***************************************************************************)
(* ZoomRange (specification SpecZoom).  The u32 fields are ZoomBits wide.  *)
(* An addition or subtraction that leaves the width panics in a build with *)
(* overflow checks and wraps in one without; both are outcomes.  The range *)
(* is held in ss, with the operation last called and the value of current  *)
(* before it.                                                              *)
(***************************************************************************)
ZoomBits == 4
ZoomWrap == Pow2(ZoomBits)
ZoomWords == 0..(ZoomWrap - 1)

\* The assertions of ZoomRange::new; max % 0 panics.
ZoomRangeNewAccepts(min, max, increment, start) ==
    /\ increment # 0
    /\ max % increment = 0 /\ min % increment = 0 /\ start % increment = 0
    /\ max >= min
    /\ start <= max
    /\ start >= min

\* ZoomRange::new
ZoomRangeNew(min, max, increment, start) ==
    [min |-> min, max |-> max, increment |-> increment, current |-> start,
     op |-> "new", prev |-> start, overflow |-> FALSE]

InitZoom ==
    /\ cache = EmptyMap /\ count = 0 /\ threshold = 1 /\ cachePath = CacheBin
    /\ disk = NoDisk /\ files = Unused /\ last = NoCall /\ allOk = TRUE
    /\ thr = Unused /\ crashed = FALSE /\ hist = {} /\ rec = Unused /\ fp = Unused
    /\ \E min \in ZoomWords, max \in ZoomWords, increment \in ZoomWords,
          start \in ZoomWords :
          /\ ZoomRangeNewAccepts(min, max, increment, start)
          /\ ss = ZoomRangeNew(min, max, increment, start)

\* a + b and a - b on the width: the values the expression can have, or
\* "panic" where the build checks overflow.
ZoomOverflows(x) == x < 0 \/ x >= ZoomWrap
ZoomWrapped(x) == x % ZoomWrap
ZoomBuilds(x) == IF ZoomOverflows(x) THEN {"checked", "wrapping"} ELSE {"wrapping"}

\* ZoomRange::zoom_in in a build b
zoom_in(self, b) ==
    LET sum == self.current + self.increment
    IN  IF ZoomOverflows(sum) /\ b = "checked"
        THEN [self EXCEPT !.op = "panic", !.prev = self.current, !.overflow = TRUE]
        ELSE [self EXCEPT !.op = "zoom_in", !.prev = self.current,
                          !.overflow = ZoomOverflows(sum),
                          !.current = IF ZoomWrapped(sum) <= self.max
                                      THEN ZoomWrapped(sum) ELSE self.max]

\* ZoomRange::zoom_out in a build b: the test subtracts increment, the new
\* value subtracts min.
zoom_out(self, b) ==
    LET diff == self.current - self.increment
        next == self.current - self.min
    IN  IF ZoomOverflows(diff) /\ b = "checked"
        THEN [self EXCEPT !.op = "panic", !.prev = self.current, !.overflow = TRUE]
        ELSE [self EXCEPT !.op = "zoom_out", !.prev = self.current,
                          !.overflow = ZoomOverflows(diff),
                          !.current = IF ZoomWrapped(diff) >= self.min
                                      THEN ZoomWrapped(next) ELSE self.min]

ZoomIn ==
    /\ ss.op # "panic"
    /\ \E b \in ZoomBuilds(ss.current + ss.increment) : ss' = zoom_in(ss, b)
    /\ UNCHANGED <<cache, count, threshold, cachePath, disk, files, last, allOk,
                   thr, crashed, hist, rec, fp>>

ZoomOut ==
    /\ ss.op # "panic"
    /\ \E b \in ZoomBuilds(ss.current - ss.increment) : ss' = zoom_out(ss, b)
    /\ UNCHANGED <<cache, count, threshold, cachePath, disk, files, last, allOk,
                   thr, crashed, hist, rec, fp>>

NextZoom == ZoomIn \/ ZoomOut

SpecZoom == InitZoom /\ [][NextZoom]_vars

C1_RoundTripAfterFailure ==
    (last.op = "save" /\ last.res = "Ok") =>
        LoadCacheFromDisk(disk, cachePath) = [res |-> "Ok", map |-> cache]

\* C2: a save that fails returns a typed error and leaves the file at the
\* cache path exactly as it was before the call.
C2_SaveAllOrNothing ==
    (last.saved /\ last.res # "Ok") =>
        /\ last.res \in {"CacheFileIoError", "SerializationError"}
        /\ FileAt(disk, cachePath) = last.prevFinal

\* C2 (for a cache path whose extension is not "tmp"): the same.
C2_SaveAllOrNothingNotTmp ==
    cachePath.ext # "tmp" => C2_SaveAllOrNothing

\* C6: a mutation adds one to the counter; save_inner runs in exactly the
\* mutation that brings the counter to the threshold, and the counter is 0
\* after it.
C6_WriteBatched ==
    last.op \in {"insert", "remove"} =>
        /\ last.saved <=> (last.prevCount + 1 = threshold)
        /\ count = IF last.prevCount + 1 = threshold THEN 0 ELSE last.prevCount + 1

\* C6 (case): the second of two mutations, with threshold 2, saved.
C6_Witness ==
    /\ last.op = "remove" /\ threshold = 2
    /\ last.prevCount = 1 /\ last.saved /\ count = 0

(***************************************************************************)
(* Claims about ProcessingFsCache on one thread (specification SpecProc).  *)
(* get_insert does not change the source file, so `files` after the call   *)
(* is the file system at call time; last.prevMap is the map at call time.  *)
(***************************************************************************)
\* The whole seconds of a time at or after the epoch.
WholeSecs(t) == t \div TicksPerSec

\* The difference, in whole seconds, of the file's mtime and the mtime cached
\* for it in map m.
SecsApart(m, key) ==
    Abs(WholeSecs(files[key].mtime) - WholeSecs(m[key].cache_mtime))

\* C4 (as stated): get_insert invokes the processing function, and replaces
\* the entry, if and only if the key is absent or the file's mtime and the
\* cached mtime are more than 2 whole seconds apart.
C4_StalenessDecision ==
    last.op = "get_insert" =>
        LET k == last.key
            m == last.prevMap
        IN  last.invoked <=>
                \/ k \notin DOMAIN m
                \/ k \in DOMAIN m /\ files[k].exists /\ SecsApart(m, k) > 2

\* C4 (amended): for a file whose mtime can be read, get_insert invokes the
\* processing function and replaces the entry if and only if the key is
\* absent or the two mtimes are more than 2 whole seconds apart (2 apart is
\* not stale, 3 apart is); it leaves the map alone otherwise.  When the
\* mtime cannot be read it returns an error and invokes nothing, whether
\* the key is present or absent.
C4_StalenessDecisionReadable ==
    last.op = "get_insert" =>
        LET k == last.key
            m == last.prevMap
        IN  IF files[k].exists
            THEN /\ last.invoked <=> (k \notin DOMAIN m \/ SecsApart(m, k) > 2)
                 /\ last.invoked =>
                        cache = MapInsert(m, k,
                                    MtimeCacheEntry(files[k].mtime, files[k].data))
                 /\ ~last.invoked => cache = m /\ last.res = "Ok"
            ELSE ~last.invoked /\ cache = m /\ last.res = "CacheItemIoError"

\* C4 (case): a present key whose file is 3 whole seconds newer was
\* processed again.
C4_Witness ==
    /\ last.op = "get_insert" /\ last.invoked
    /\ FileA \in DOMAIN last.prevMap
    /\ SecsApart(last.prevMap, FileA) = 3
    /\ cache[FileA].cache_mtime = files[FileA].mtime

C3_NoPartialFile ==
    FileAt(disk, cachePath).present =>
        \E m \in hist : FileAt(disk, cachePath).data = Serialize(m)

-----------------------------------------------------------------------------
\* Claims about update_from_fs (SpecRec).

\* The roots of the file set of the run.
SourceRoots == {rec.fset.source_paths[i] : i \in 1..Len(rec.fset.source_paths)}
ExclRoots == {rec.fset.excl_paths[i] : i \in 1..Len(rec.fset.excl_paths)}

\* p is root or lies below it.
Under(root, p) == Len(root) <= Len(p) /\ \A i \in 1..Len(root) : p[i] = root[i]

\* The projection includes p.
Projected(p) == (\E r \in SourceRoots : Under(r, p)) /\ ~(\E r \in ExclRoots : Under(r, p))

\* The keys the cache held before the run that the projection includes and
\* whose file no longer exists.
Gone == {k \in DOMAIN rec.cache0 : Projected(k) /\ ~files[k].exists}

ReturnedOk == rec.phase = "done" /\ rec.result = "Ok"

\* C7: when update_from_fs returns Ok, the keys of the cache are the keys it
\* had before, less every key the projection includes whose file no longer
\* exists, plus the paths the projection enumerated; a key the projection
\* does not include is kept with its entry untouched.
C7_ReconcilePostcondition ==
    ReturnedOk =>
        /\ DOMAIN cache = (DOMAIN rec.cache0 \ Gone) \cup rec.loading
        /\ \A k \in DOMAIN rec.cache0 :
              ~Projected(k) => k \in DOMAIN cache /\ cache[k] = rec.cache0[k]

\* Scenario S4: the cache held P1 (exists) and P2 (deleted), the projection
\* yields P1 and the new file P3, and the cache ends with the keys P1 and P3.
C7_Witness ==
    /\ ReturnedOk
    /\ DOMAIN rec.cache0 = {FileA, FileB}
    /\ files[FileA].exists /\ ~files[FileB].exists
    /\ rec.loading = {FileA, FileX}
    /\ DOMAIN cache = {FileA, FileX}

\* The entry a sequential run leaves for a key: the one made from the file if
\* the path was enumerated and its key was absent or stale, else the old one.
EntryAfter(k) ==
    IF k \in rec.loading
       /\ (k \notin DOMAIN rec.cache0
           \/ Abs(WholeSecs(rec.cache0[k].cache_mtime) - WholeSecs(files[k].mtime)) > 2)
    THEN MtimeCacheEntry(files[k].mtime, files[k].data)
    ELSE rec.cache0[k]

\* C8: whatever the interleaving of the workers, update_from_fs ends with
\* one and the same map, the one determined by the cache before the run, the
\* files and the projection.
C8_OrderIndependent ==
    ReturnedOk =>
        cache = [k \in (DOMAIN rec.cache0 \ Gone) \cup rec.loading |-> EntryAfter(k)]

\* A run that removed a key, replaced a stale entry and inserted a new key.
C8_Witness ==
    /\ ReturnedOk
    /\ FileB \in DOMAIN rec.cache0 /\ FileB \notin DOMAIN cache
    /\ FileA \in DOMAIN rec.cache0 /\ FileA \in DOMAIN cache
    /\ rec.cache0[FileA] # cache[FileA]
    /\ FileX \notin DOMAIN rec.cache0 /\ FileX \in DOMAIN cache

\* C9: if a source root or an exclude root of the file set does not exist,
\* update_from_fs returns Err, never Ok with a list, and the map, the
\* modification counter and the cache file are as they were before the call.
C9_FatalAbortsBeforeMutation ==
    (rec.phase # "call" /\ \E r \in SourceRoots \cup ExclRoots : ~PathExists(files, r)) =>
        /\ rec.phase = "done" /\ rec.result = "Err" /\ rec.errs = {}
        /\ cache = rec.cache0
        /\ count = rec.count0
        /\ disk = rec.disk0

\* The exclude root r/y is missing, and a loaded cache with an unsaved
\* modification is left alone.
C9_Witness ==
    /\ rec.phase = "done" /\ rec.result = "Err"
    /\ DirRY \in ExclRoots
    /\ rec.cache0 # EmptyMap /\ count = 1
    /\ FileAt(disk, cachePath).present

-----------------------------------------------------------------------------
\* Claims about the fingerprint distance (SpecDist).

\* C10: the distance of a fingerprint to itself, and to a clone of itself,
\* is 0 in both components.
C10_DistanceIdentity ==
    (fp.d.called /\ fp[fp.d.x] = fp[fp.d.y]) =>
        fp.d.spatial = 0 /\ fp.d.temporal = 0

\* The distance of a ten-frame fingerprint with bits set in every word to
\* the fingerprint in the other slot, which equals it.
C10_Witness ==
    /\ fp.d.called /\ fp.d.x = "a" /\ fp.d.y = "b"
    /\ fp.a = fp.b
    /\ fp.a.num_frames = HASH_NUM_IMAGES
    /\ \A i \in 1..SPATIAL_HASH_QWORDS : fp.a.shash[i] # 0
    /\ \A i \in 1..TEMPORAL_HASH_QWORDS : fp.a.thash[i] # 0

\* The distance the last call returned.
Measured == [spatial |-> fp.d.spatial, temporal |-> fp.d.temporal]

\* C11: the distance of F to G is the distance of G to F, in both
\* components, whatever the two frame counts.
C11_DistanceSymmetry ==
    fp.d.called => distance(fp[fp.d.y], fp[fp.d.x]) = {Measured}

\* Two fingerprints of different frame counts at a distance that is not 0
\* in either component.
C11_Witness ==
    /\ fp.d.called /\ fp.d.x = "a" /\ fp.d.y = "b"
    /\ fp.a.num_frames < fp.b.num_frames
    /\ fp.d.spatial > 0 /\ fp.d.temporal > 0

RECURSIVE PopSum(_, _, _)
PopSum(x, y, k) ==
    IF k = 0 THEN 0 ELSE CountOnes(BitXor(x[k], y[k])) + PopSum(x, y, k - 1)

\* The two fingerprints of the last call, and the smaller frame count.
FpX == fp[fp.d.x]
FpY == fp[fp.d.y]
MinFrames == IF FpX.num_frames < FpY.num_frames THEN FpX.num_frames ELSE FpY.num_frames

\* 640 / m, to the nearest integer and with the fraction dropped.
Round640(m) == (2 * 640 + m) \div (2 * m)
Trunc640(m) == 640 \div m

\* C13 (as stated): both components are the raw bit count times
\* round(640 / m), m the smaller frame count; so one differing temporal bit
\* between two 2-frame fingerprints gives the temporal distance 320.
C13_Normalization ==
    fp.d.called =>
        /\ fp.d.spatial = PopSum(FpX.shash, FpY.shash, SPATIAL_HASH_QWORDS) * Round640(MinFrames)
        /\ fp.d.temporal = PopSum(FpX.thash, FpY.thash, TEMPORAL_HASH_QWORDS) * Round640(MinFrames)

\* C13 (amended): the spatial component is the raw bit count times
\* 640 / m with the fraction dropped, the temporal one the raw bit count
\* times 640 / (m - 1) with the fraction dropped.
C13_NormalizationTruncated ==
    fp.d.called =>
        /\ fp.d.spatial = PopSum(FpX.shash, FpY.shash, SPATIAL_HASH_QWORDS) * Trunc640(MinFrames)
        /\ fp.d.temporal = PopSum(FpX.thash, FpY.thash, TEMPORAL_HASH_QWORDS) * Trunc640(MinFrames - 1)

\* Two 6-frame fingerprints (640 / 6 is not whole) that differ in one bit of
\* the first spatial word and in one bit of every temporal word.
C13_Witness ==
    /\ fp.d.called /\ fp.d.x = "a" /\ fp.d.y = "b"
    /\ fp.a.num_frames = 6 /\ fp.b.num_frames = 6
    /\ fp.d.spatial = 106
    /\ fp.d.temporal = 5 * 128

\* Two 2-frame fingerprints that differ in one temporal bit only: their
\* temporal distance is 640.
C13_OneTemporalBit ==
    /\ fp.d.called
    /\ FpX.num_frames = 2 /\ FpY.num_frames = 2
    /\ PopSum(FpX.thash, FpY.thash, TEMPORAL_HASH_QWORDS) = 1
    /\ fp.d.temporal = 640

\* C14: the raw spatial count covers the spatial words 0..m-1 only and the
\* raw temporal count the temporal words 0..m-2 only, m the smaller frame
\* count: what the longer fingerprint holds beyond them does not enter the
\* distance.
C14_CommonPrefixOnly ==
    fp.d.called =>
        /\ fp.d.spatial = PopSum(FpX.shash, FpY.shash, MinFrames) * Trunc640(MinFrames)
        /\ fp.d.temporal = PopSum(FpX.thash, FpY.thash, MinFrames - 1) * Trunc640(MinFrames - 1)

\* A 2-frame and a 10-frame fingerprint that agree in their first two
\* spatial words and their first temporal word, at a distance that is not 0.
C14_BeyondPrefix ==
    /\ fp.d.called
    /\ FpX.num_frames = 2 /\ FpY.num_frames = 10
    /\ PopSum(FpX.shash, FpY.shash, 2) = 0
    /\ PopSum(FpX.thash, FpY.thash, 1) = 0
    /\ fp.d.spatial = 8 * 64 * 320
    /\ fp.d.temporal = 8 * 64 * 640

\* Every word of every frame is 0.
ZeroFrames(frames) ==
    \A i \in 1..Len(frames) : \A j \in 1..Len(frames[i]) : frames[i][j] = 0

TaintedValues_bk == {ss.bk[p].value : p \in {q \in DOMAIN ss.bk : ss.bk[q].value_tainted}}
TaintedValues_vec == {ss.vec[i].value : i \in {j \in 1..Len(ss.vec) : ss.vec[j].value_tainted}}

\* C16: in a serial sequence of searches on one structure, BkTree or
\* SearchVec, an entry a consuming search emits is tainted by that search,
\* and no later search emits an entry a consuming search has emitted.
C16_ConsumeSemantics ==
    ss.call.op = "search" =>
        /\ ss.call.bk_again = {} /\ ss.call.vec_again = {}
        /\ ss.call.consume => /\ ss.call.bk \subseteq TaintedValues_bk
                              /\ ss.call.vec \subseteq TaintedValues_vec

\* C16 (case): a consuming search for a video both structures emitted
\* before, with a tolerance that holds it, emits nothing.
C16_Witness ==
    /\ ss.call.op = "search" /\ ss.call.consume
    /\ ss.call.value \in ss.bk_consumed \cap ss.vec_consumed
    /\ ss.call.value \in TaintedValues_bk \cap TaintedValues_vec
    /\ ss.call.bk = {} /\ ss.call.vec = {}

\* The values among `held` within the tolerance of the call's query.
WithinTolerance(held) ==
    {v \in held :
        /\ VideoDistance[ss.call.value, v].spatial <= ss.call.tolerance.spatial
        /\ VideoDistance[ss.call.value, v].temporal <= ss.call.tolerance.temporal}

\* C17: a search on structures in which no entry is tainted returns exactly
\* the seeded values whose spatial and temporal distance to the query are
\* within the tolerance, from the BkTree as from the SearchVec, whatever the
\* seeding order.
C17_SearchExact ==
    (ss.call.op = "search" /\ ss.call.untainted) =>
        /\ ss.call.bk = WithinTolerance(ss.call.bk_held)
        /\ ss.call.vec = WithinTolerance(ss.call.vec_held)

\* C17 (half that holds): the SearchVec is exact, and the BkTree emits
\* nothing outside the tolerance.
C17_SearchVecExact ==
    (ss.call.op = "search" /\ ss.call.untainted) =>
        /\ ss.call.bk \subseteq WithinTolerance(ss.call.bk_held)
        /\ ss.call.vec = WithinTolerance(ss.call.vec_held)

\* C17 (case): a search of the second seeded video itself, on new
\* structures, that the BkTree answers with nothing.
C17_Missed ==
    /\ ss.call.op = "search" /\ ss.call.untainted
    /\ Len(ss.seeded) = 2 /\ ss.call.value = ss.seeded[2]
    /\ ss.call.bk = {} /\ ss.call.value \in ss.call.vec

\* C18: seeded alike and given the same serial sequence of calls, the
\* BkTree and the SearchVec return the same set of values from every
\* search, the same set of unmatched items (when count lets all of them
\* through) and the same len().
C18_BackendEquivalence ==
    /\ ss.call.op = "search" => ss.call.bk = ss.call.vec
    /\ (ss.call.op = "fetch_unmatched_items" /\ ss.call.count >= Len(ss.seeded)) =>
            ss.call.bk = ss.call.vec
    /\ ss.call.op = "len" => ss.call.bk_len = ss.call.vec_len

\* C18 (case): no search has consumed anything, and a search returns the
\* root's value from the SearchVec but not from the BkTree.
C18_RootLost ==
    /\ ss.call.op = "search" /\ ~ss.call.consume
    /\ ss.bk_consumed = {} /\ ss.vec_consumed = {}
    /\ ss.seeded /= <<>> /\ ss.seeded[1] \in ss.call.vec \ ss.call.bk

\* C18 (case): len() of the two structures differs.
C18_LenDiffers ==
    ss.call.op = "len" /\ ss.call.bk_len < ss.call.vec_len

(***************************************************************************)
(* Claims about find_all (specifications SpecFind and SpecFindPar).        *)
(***************************************************************************)
\* The groups returned so far that hold the path v.
GroupsOf(v) ==
    {i \in 1..Len(ss.match_groups) : v \in Range(ss.match_groups[i].duplicates)}

\* C19: with deterministic_search, whatever the backend and the order of the
\* hashes, no path is in more than one of the groups find_all returns.
C19_DeterministicDisjoint ==
    ss.deterministic_search => \A v \in Videos : Cardinality(GroupsOf(v)) <= 1

\* C19 (case): find_all has returned, from a BkTree searched
\* deterministically, one group of three videos: the searches of the second
\* and third value of the batch added no group.
C19_Witness ==
    /\ ss.pc = "done" /\ ss.deterministic_search /\ ~ss.vec_search
    /\ Len(ss.hashes) = 3 /\ Len(ss.match_groups) = 1
    /\ Len(ss.match_groups[1].duplicates) = 3

\* C20: without deterministic_search, under every interleaving of the
\* workers' loads and stores of the taint flags, no path is in more than
\* one of the groups find_all returns.
C20_ParallelDisjoint ==
    ~ss.deterministic_search => \A v \in Videos : Cardinality(GroupsOf(v)) <= 1

\* C20 (case): find_all has returned, from two videos searched in parallel
\* on a SearchVec, two groups.
C20_TwoGroups ==
    /\ ss.pc = "done" /\ ~ss.deterministic_search /\ ss.vec_search
    /\ Len(ss.hashes) = 2 /\ Len(ss.match_groups) = 2

\* The hashes given to find_all are at least k and have the same words.
AllEqual(k) ==
    /\ Len(ss.hashes) >= k
    /\ \A i, j \in 1..Len(ss.hashes) :
          VideoHash[ss.hashes[i]] = VideoHash[ss.hashes[j]]

\* C21: find_all on two or more fingerprints with the same words (and
\* distinct paths) returns exactly one group, and that group holds every
\* input path, for either backend, either mode and any tolerance.
C21_EqualOneGroup ==
    (ss.pc = "done" /\ AllEqual(2)) =>
        /\ Len(ss.match_groups) = 1
        /\ Range(ss.match_groups[1].duplicates) = Range(ss.hashes)

\* C21 (case): find_all has returned from two equal fingerprints searched on
\* the pool, on a BkTree, with more than one group.
C21_EqualTwoGroups ==
    /\ ss.pc = "done" /\ AllEqual(2) /\ ~ss.vec_search
    /\ Len(ss.match_groups) > 1

\* a is within the tolerance of b in both components.
Within(a, b) ==
    /\ VideoDistance[a, b].spatial <= ss.tolerance.spatial
    /\ VideoDistance[a, b].temporal <= ss.tolerance.temporal

\* The three hashes given to find_all are a chain: one of them is within
\* tolerance of the two others, which are not within tolerance of each
\* other.
IsChain ==
    /\ Len(ss.hashes) = 3
    /\ \E a, b, c \in Range(ss.hashes) :
          /\ a /= b /\ a /= c /\ b /= c
          /\ Within(a, b) /\ Within(b, a) /\ Within(a, c) /\ Within(c, a)
          /\ ~Within(b, c) /\ ~Within(c, b)

\* C22: for three fingerprints A, B, C where A is within tolerance of B and
\* of C but B and C are not within tolerance of each other, find_all returns
\* exactly one group {A, B, C}, whatever the order of the hashes and the
\* backend.
C22_ChainOneGroup ==
    (ss.pc = "done" /\ IsChain) =>
        /\ Len(ss.match_groups) = 1
        /\ Range(ss.match_groups[1].duplicates) = Range(ss.hashes)

\* C22 (case): find_all has returned from the chain V3, V1, V4 on a
\* SearchVec with the one group of V3 and V1: V4 is in no group.
C22_ChainSplit ==
    /\ ss.pc = "done" /\ IsChain /\ ss.vec_search
    /\ ss.hashes = <<"V3", "V1", "V4">>
    /\ Len(ss.match_groups) = 1
    /\ Range(ss.match_groups[1].duplicates) = {"V1", "V3"}

(***************************************************************************)
(* Claims about find_with_refs (specification SpecRefs).                   *)
(***************************************************************************)
\* The groups returned so far whose duplicates hold the path v, and those
\* whose reference is v.
DuplicateIn(v) ==
    {i \in 1..Len(ss.match_groups) : v \in Range(ss.match_groups[i].duplicates)}
ReferenceOf(v) ==
    {i \in 1..Len(ss.match_groups) : ss.match_groups[i].reference = v}

\* C23: in find_with_refs every candidate path is among the duplicates of
\* at most one returned group, and every reference is the reference of at
\* most one returned group.
C23_RefsDisjoint ==
    \A v \in Videos :
        /\ Cardinality(DuplicateIn(v)) <= 1
        /\ Cardinality(ReferenceOf(v)) <= 1

\* C23 (case): find_with_refs has returned two groups from the references
\* V3 and V1 and the candidates V2, within tolerance of both references, and
\* V4, within tolerance of V1 only: V2 is a duplicate of V3 alone.
C23_Witness ==
    /\ ss.pc = "done" /\ ss.ref_hashes = <<"V3", "V1">>
    /\ ss.new_hashes = {"V2", "V4"} /\ ss.tolerance = ChainTolerance
    /\ Len(ss.match_groups) = 2
    /\ DuplicateIn("V2") = {1} /\ DuplicateIn("V4") = {2}

\* The candidates within tolerance of the k-th reference and of no
\* reference before it.
FirstWithin(k) ==
    {c \in ss.new_hashes :
        /\ Within(ss.ref_hashes[k], c)
        /\ \A j \in 1..(k - 1) : ~Within(ss.ref_hashes[j], c)}

\* The duplicates returned under the reference v.
DuplicatesOf(v) ==
    UNION {Range(ss.match_groups[i].duplicates) : i \in ReferenceOf(v)}

\* C24: with deterministic_search the group of each reference holds exactly
\* the candidates within tolerance of it that are within tolerance of no
\* reference iterated before it, for both backends; so refs = [A] and
\* cands = [B, C] with A within tolerance of both give the one group of A
\* with the duplicates B and C.
C24_RefOrder ==
    (ss.pc = "done" /\ ss.deterministic_search) =>
        \A k \in 1..Len(ss.ref_hashes) :
            DuplicatesOf(ss.ref_hashes[k]) = FirstWithin(k)

\* C24 holds of the SearchVec.
C24_RefOrderSearchVec ==
    (ss.pc = "done" /\ ss.deterministic_search /\ ss.vec_search) =>
        \A k \in 1..Len(ss.ref_hashes) :
            DuplicatesOf(ss.ref_hashes[k]) = FirstWithin(k)

\* C24 (case): find_with_refs has returned from refs = [V1] and the
\* candidates V3 and V4, both within tolerance of V1, on a BkTree, and V1
\* has a group that lacks one of them.
C24_OneMissing ==
    /\ ss.pc = "done" /\ ss.deterministic_search /\ ~ss.vec_search
    /\ ss.ref_hashes = <<"V1">> /\ ss.new_hashes = {"V3", "V4"}
    /\ ss.tolerance = ChainTolerance
    /\ Cardinality(DuplicatesOf("V1")) = 1

(***************************************************************************)
(* Claims about two calls of find_all (specification SpecFindTwice).       *)
(***************************************************************************)
\* C25: two runs of find_all with deterministic_search on the same sequence
\* of fingerprints and the same tolerance return identical lists of groups,
\* for the SearchVec and for the BkTree, whose children are kept in a
\* HashMap.
C25_Deterministic ==
    (ss.pc = "done" /\ ss.earlier /= <<>>) => ss.match_groups = ss.earlier[1]

\* C25 holds of the SearchVec.
C25_DeterministicSearchVec ==
    (ss.pc = "done" /\ ss.earlier /= <<>> /\ ss.vec_search) =>
        ss.match_groups = ss.earlier[1]

\* C25 (case): the second call on a BkTree has returned a list of groups of
\* another length than the first call.
C25_RunsDiffer ==
    /\ ss.pc = "done" /\ ss.earlier /= <<>> /\ ~ss.vec_search
    /\ Len(ss.match_groups) /= Len(ss.earlier[1])

(***************************************************************************)
(* Claims about the shape of the groups (specifications SpecFind and       *)
(* SpecRefs).                                                              *)
(***************************************************************************)
\* MatchGroup::len
MatchGroup_len(group) ==
    Len(group.duplicates) + (IF group.reference = None THEN 0 ELSE 1)

\* The paths of a list are in ascending order of length.
SortedByLength(paths) ==
    \A i, j \in 1..Len(paths) :
        i < j => as_os_str_len[paths[i]] <= as_os_str_len[paths[j]]

\* C26: every group find_all (and find_with_refs, affirmed,
\* cartesian_product) emits has at least 2 members, the reference included,
\* and its duplicates are sorted by path length ascending.
C26_GroupShape ==
    \A i \in 1..Len(ss.match_groups) :
        /\ MatchGroup_len(ss.match_groups[i]) >= 2
        /\ SortedByLength(ss.match_groups[i].duplicates)

\* C26, the number of members alone.
C26_AtLeastTwo ==
    \A i \in 1..Len(ss.match_groups) : MatchGroup_len(ss.match_groups[i]) >= 2

\* C26 (case): find_all has returned a group whose first path is longer
\* than its second.
C26_Unsorted ==
    /\ ss.pc = "done" /\ Len(ss.match_groups) = 1
    /\ ss.match_groups[1].reference = None
    /\ Len(ss.match_groups[1].duplicates) = 2
    /\ as_os_str_len[ss.match_groups[1].duplicates[1]]
          > as_os_str_len[ss.match_groups[1].duplicates[2]]

(***************************************************************************)
(* Claims about affirmed_noreference (specification SpecAffirm).           *)
(***************************************************************************)
\* The returned sub-groups that hold the path v.
SubGroupsOf(v) ==
    {g \in 1..Len(ss.affirmed) : v \in Range(ss.affirmed[g].duplicates)}

\* The first-inserted member of a returned sub-group: the member that comes
\* first in the input group.
Anchor(group) ==
    CHOOSE v \in Range(group.duplicates) :
        \A u \in Range(group.duplicates) :
            \E i, j \in 1..Len(ss.group.duplicates) :
                /\ ss.group.duplicates[i] = v /\ ss.group.duplicates[j] = u
                /\ i <= j

\* C27: affirmed_noreference returns sub-groups such that each input path
\* is in at most one of them, each has at least 2 members, and every other
\* member passes is_match against the first-inserted member of its
\* sub-group.
C27_AffirmedDisjoint ==
    ss.pc = "done" =>
        /\ \A v \in Videos : Cardinality(SubGroupsOf(v)) <= 1
        /\ \A g \in 1..Len(ss.affirmed) :
              /\ Len(ss.affirmed[g].duplicates) >= 2
              /\ \A v \in Range(ss.affirmed[g].duplicates) \ {Anchor(ss.affirmed[g])} :
                    is_match(ss.stats[v], ss.stats[Anchor(ss.affirmed[g])])

\* C27, the number of members alone.
C27_AtLeastTwo ==
    ss.pc = "done" =>
        \A g \in 1..Len(ss.affirmed) : Len(ss.affirmed[g].duplicates) >= 2

\* C27 (case): affirmed_noreference has returned two sub-groups that share
\* a path.
C27_SharedMember ==
    /\ ss.pc = "done" /\ Len(ss.affirmed) = 2
    /\ \E v \in Videos : SubGroupsOf(v) = {1, 2}

(***************************************************************************)
(* Claims about the projections (specification SpecRec).                   *)
(***************************************************************************)
\* A list has no path twice.
DuplicateFree(paths) == \A i, j \in 1..Len(paths) : paths[i] = paths[j] => i = j

\* C28: on an unchanging filesystem projecting from the filesystem twice
\* gives the same ordered duplicate-free list, and after a full
\* reconciliation of any starting cache the set of paths projected from the
\* keys of the cache equals the set projected from the filesystem.
C28_ProjectionConsistent ==
    (ReturnedOk /\ rec.errs = {}) =>
        /\ \A first, second \in enumerate_from_fs(rec.fset, files) :
              first = second /\ DuplicateFree(first)
        /\ \A paths \in enumerate_from_fs(rec.fset, files) :
              enumerate_from_cache(rec.fset, cache) = Range(paths)

\* C28, the half about the filesystem alone.
C28_FsProjectionStable ==
    (ReturnedOk /\ rec.errs = {}) =>
        \A first, second \in enumerate_from_fs(rec.fset, files) :
            first = second /\ DuplicateFree(first)

\* C28 (case): update_from_fs has returned without any error from a cache
\* that held r/g.PNG, and the cache projects r/g.PNG, which the walk of the
\* filesystem does not keep.
C28_ExcludedExtensionKept ==
    /\ ReturnedOk /\ rec.errs = {}
    /\ FileG \in DOMAIN rec.cache0
    /\ FileG \in enumerate_from_cache(rec.fset, cache)
    /\ FileG \notin EnumeratedPaths(rec.fset, files)

(***************************************************************************)
(* Claims about the shadowing of roots (specification SpecShadow).         *)
(***************************************************************************)
\* The file lies under one of the roots of the list.
UnderSome(roots, file) ==
    \E i \in 1..Len(roots) :
        /\ Len(roots[i]) <= Len(file)
        /\ \A n \in 1..Len(roots[i]) : file[n] = roots[i][n]

\* C29: for candidate roots and reference roots with no path in common,
\* nested in each other to any depth, every file under some candidate or
\* reference root and under no user exclude root is included by exactly one
\* of the candidate projection and the reference projection.
C29_ShadowPartition ==
    (ss.pc = "done" /\ ss.result = "Ok") =>
        \A file \in ShadowFiles :
            ((UnderSome(ss.cand_dirs, file) \/ UnderSome(ss.ref_dirs, file))
                    /\ ~UnderSome(ss.excl_dirs, file))
                => ((file \in ss.new_hashes) /= (file \in ss.ref_hashes))

\* C29, the half "never both".
C29_NeverBoth ==
    (ss.pc = "done" /\ ss.result = "Ok") => ss.new_hashes \cap ss.ref_hashes = {}

\* C29 (case): candidates a and a/b/c, reference a/b, no user exclude, and
\* the file a/b/c/f.mp4 is on neither side.
C29_Neither ==
    /\ ss.pc = "done" /\ ss.result = "Ok" /\ ss.excl_dirs = <<>>
    /\ ss.cand_dirs = << <<"a">>, <<"a", "b", "c">> >>
    /\ ss.ref_dirs = << <<"a", "b">> >>
    /\ <<"a", "b", "c", "f.mp4">> \notin ss.new_hashes \cup ss.ref_hashes

(***************************************************************************)
(* Claims about cache write failures in a run (SpecRun).                   *)
(***************************************************************************)

\* The error kinds save_inner returns when writing the cache file fails.
WriteFailureKinds == {"CacheFileIoError", "SerializationError"}

\* Writing the cache file failed in this run: in a threshold-triggered save
\* of reconciliation (the error is in errs_ret) or in the explicit save().
WriteFailed ==
    \/ \E e \in rec.errs : e.kind \in WriteFailureKinds
    \/ ss.save \in WriteFailureKinds

\* C30: a run in which writing the cache file failed, in the explicit save()
\* or in a threshold-triggered save inside an insert of reconciliation, ends
\* with exit code 1.
C30_WriteFailureFatal ==
    (rec.phase = "exit" /\ WriteFailed) => ss.code = 1

\* The part of C30 about the explicit save(): its failure ends the run with
\* exit code 1.
C30_ExplicitSaveFatal ==
    (rec.phase = "exit" /\ ss.save \in WriteFailureKinds) => ss.code = 1

\* A run that ended with exit code 0 although the threshold-triggered save
\* of an insert failed (the cache was empty, so nothing was removed): the
\* failure is among the non-fatal errors only.
C30_ExitZeroAfterFailure ==
    /\ rec.phase = "exit" /\ ss.code = 0 /\ rec.cache0 = EmptyMap
    /\ \E e \in rec.errs : e.kind \in WriteFailureKinds

\* A run whose explicit save() failed.
C30_ExplicitSaveFailed ==
    rec.phase = "exit" /\ ss.save \in WriteFailureKinds

(***************************************************************************)
(* Claims about DupFinderCache entries (specification SpecEntry).          *)
(* get_insert and get do not change the source file, so `files` after the  *)
(* call is the file system at call time; ss.prevMap, ss.prevCount and      *)
(* ss.prevDisk are the cache state at call time.                           *)
(***************************************************************************)
\* The key of the last call was present at call time and its entry was not
\* stale: the file's mtime can be read and is at most 2 whole seconds from
\* the cached mtime.
PresentNotStale ==
    /\ ss.key \in DOMAIN ss.prevMap
    /\ files[ss.key].exists
    /\ SecsApart(ss.prevMap, ss.key) <= 2

\* C31: get_insert on a key whose entry is present and not stale, whatever
\* variant it holds, does not invoke the processing function, leaves the map,
\* the modification counter and the cache file unchanged and returns the
\* stored entry; get never changes any cache state.
C31_ShortCircuit ==
    /\ (ss.op = "get_insert" /\ PresentNotStale) =>
            /\ ~ss.invoked
            /\ cache = ss.prevMap /\ count = ss.prevCount /\ disk = ss.prevDisk
            /\ ss.res = "Ok" /\ ss.value = ss.prevMap[ss.key].value
    /\ ss.op = "get" =>
            /\ ~ss.invoked
            /\ cache = ss.prevMap /\ count = ss.prevCount /\ disk = ss.prevDisk

\* C31 (case): get_insert returned a cached ProcessingError for a file that
\* would now give a Video entry and whose mtime is 2 whole seconds from the
\* cached one.
C31_Witness ==
    /\ ss.op = "get_insert" /\ PresentNotStale
    /\ ss.value = "ProcessingError"
    /\ create_load_fn(files[ss.key]) = "Video"
    /\ SecsApart(ss.prevMap, ss.key) = 2

\* The last call was a get_insert that ran the processing function on a file
\* that is_video_file accepts and whose hashing fails with VideoTooShortError.
ProcessedTooShort ==
    /\ ss.op = "get_insert" /\ ss.invoked
    /\ files[ss.key].video = "true"
    /\ files[ss.key].hash = "VideoTooShortError"

\* C37: for a path that is_video_file accepts, the cache entry is ShortVideo
\* whenever hashing fails with VideoTooShortError, whether the stats probe
\* succeeds or fails; it is never a ProcessingError.
C37_TooShortEntry ==
    ProcessedTooShort => cache[ss.key].value = "ShortVideo"

\* The part of C37 that holds: with a stats probe that succeeds the entry of a
\* too-short video is ShortVideo.
C37_TooShortStatsOk ==
    (ProcessedTooShort /\ files[ss.key].stats = "Ok") =>
        cache[ss.key].value = "ShortVideo"

\* A too-short video whose stats probe fails, cached as ProcessingError.
C37_TooShortAsProcessingError ==
    /\ ProcessedTooShort /\ files[ss.key].stats = "Err"
    /\ cache[ss.key].value = "ProcessingError"

(***************************************************************************)
(* Claims about a final save after concurrent calls (SpecFinal).           *)
(***************************************************************************)
\* C32: after concurrent insert / remove calls, threshold-triggered saves
\* included, have all returned, one call of save() that returns Ok leaves a
\* cache file that holds exactly the in-memory map.
C32_NothingUnsaved ==
    (last.op = "save" /\ last.res = "Ok") =>
        LoadCacheFromDisk(disk, cachePath) = [res |-> "Ok", map |-> cache]

\* A final save() that found the counter at 0 and wrote nothing although the
\* map holds a key the cache file does not.
C32_NoOpWithUnsavedKey ==
    /\ last.op = "save" /\ last.res = "Ok" /\ ~last.saved
    /\ \E k \in DOMAIN cache : k \notin DOMAIN LoadCacheFromDisk(disk, cachePath).map

\* The part of C32 that holds: a final save() that ran save_inner and
\* returned Ok leaves the in-memory map in the cache file.
C32_WrittenWhenSaved ==
    (last.op = "save" /\ last.res = "Ok" /\ last.saved) =>
        LoadCacheFromDisk(disk, cachePath) = [res |-> "Ok", map |-> cache]

(***************************************************************************)
(* Claims about threshold crossings under concurrency (SpecCross).         *)
(***************************************************************************)
\* The positions of a thread inside save_inner.
SavePcs == {"sv_dir", "sv_create", "sv_lock", "sv_write", "sv_rename"}

\* The threads whose fetch_add returned threshold - 1 and that have not yet
\* reached update_transaction_count_and_save_if_necessary's store.
PendingCrossings ==
    {t \in Threads : thr[t].pc \in {"ins_write", "update"}
                     /\ thr[t].prev = threshold - 1}

\* C33: in any interleaving of concurrent insert / remove calls, save_inner
\* is run only by a mutation whose fetch_add returned save_threshold - 1,
\* every such mutation stores 0 to the counter, and from one such fetch_add
\* to the next at least save_threshold fetch_adds have incremented the
\* counter.
C33_OneSavePerCrossing ==
    /\ \A t \in Threads : thr[t].pc \in SavePcs => thr[t].prev = threshold - 1
    /\ ss.stored \subseteq {0}
    /\ ss.crossings = ss.resets + Cardinality(PendingCrossings)
    /\ \A g \in ss.gaps : g >= threshold

\* C33 (case): with threshold 1, a mutation incremented the counter between
\* a crossing and its store(0), so the next crossing came two fetch_adds
\* after it; both crossings have stored 0 and every call has returned.
C33_Witness ==
    /\ threshold = 1 /\ ss.crossings = 2 /\ ss.resets = 2
    /\ 2 \in ss.gaps
    /\ \A t \in Threads : thr[t].pc = "idle"

(***************************************************************************)
(* Claims about the lists of one batch of find_all (SpecFind).             *)
(***************************************************************************)
\* The searches of the batch that have returned a list of length 1.
SingletonResults ==
    {i \in 1..Len(ss.matches) : ss.matches[i].done /\ Len(ss.matches[i].ret) = 1}

\* C34: in find_all every list of length 1 that the search of a batch
\* returns consists of the value searched for, so the filter on length > 1
\* drops no match between two different items.
C34_SingletonIsQuery ==
    ss.pc = "search" =>
        \A i \in SingletonResults : ss.matches[i].ret[1] = ss.items_to_match[i]

\* A list of length 1 that holds another item than the value searched for,
\* an item within the tolerance of that value: the filter drops their match.
C34_SingletonOfOther ==
    /\ ss.pc = "search"
    /\ \E i \in SingletonResults :
          /\ ss.matches[i].ret[1] /= ss.items_to_match[i]
          /\ Within(ss.items_to_match[i], ss.matches[i].ret[1])
          /\ Within(ss.matches[i].ret[1], ss.items_to_match[i])

(***************************************************************************)
(* Claims about the termination of find_all (SpecFindLive).                *)
(***************************************************************************)
\* search_struct.len() of the call, and the number of entries the structure
\* of call record s holds, tainted or not.
BackendLen == SearchStructEnum_len(ss.vec_search, ss.search_struct)
BackendSize(s) ==
    IF s.vec_search THEN Len(s.search_struct)
    ELSE Cardinality({p \in DOMAIN s.search_struct : s.search_struct[p].value /= None})

\* C35: find_all terminates for every input, backend and mode: the loop
\* 'while search_struct.len() > 0' is left and find_all returns.
C35_Terminates == <>(ss.pc = "done")

\* C35 (why): every iteration of the loop ends with a backend that holds
\* fewer entries than the one it started with.
C35_BatchShrinks ==
    [][(ss.pc = "search" /\ ss'.pc = "loop") => BackendSize(ss') < BackendSize(ss)]_vars

\* C35 (case): the loop is about to start a further iteration: an earlier
\* one has shrunk the BkTree searched on the pool, and it is not yet empty.
C35_Witness ==
    /\ ss.pc = "loop" /\ ~ss.deterministic_search /\ ~ss.vec_search
    /\ BackendLen > 0 /\ BackendLen < Len(ss.hashes)

(***************************************************************************)
(* Claims about the lookup-table indices (specification SpecLut)           *)
(***************************************************************************)

\* The index of the last distance() into SPATIAL_LUT: the smaller num_frames.
LutIndex ==
    IF fp[fp.d.x].num_frames < fp[fp.d.y].num_frames
    THEN fp[fp.d.x].num_frames ELSE fp[fp.d.y].num_frames

\* C36: every fingerprint that reaches distance(), built by TemporalHash::new
\* or deserialized from the cache file, has 2 <= num_frames <= 10, so the
\* index min(nA, nB) into SPATIAL_LUT and min(nA, nB) - 1 into TEMPORAL_LUT
\* is inside the table and never 0.
C36_IndicesInRange ==
    fp.d.called =>
        /\ fp[fp.d.x].num_frames \in 2..HASH_NUM_IMAGES
        /\ fp[fp.d.y].num_frames \in 2..HASH_NUM_IMAGES
        /\ LutIndex \in DOMAIN SPATIAL_LUT /\ LutIndex # 0
        /\ (LutIndex - 1) \in DOMAIN TEMPORAL_LUT /\ LutIndex - 1 # 0

\* The part of C36 that holds: a fingerprint TemporalHash::new built from
\* the frames of the sampler has 2 <= num_frames <= 10.
C36_BuiltInRange ==
    \A s \in Slots :
        (fp[s].res = "Ok" /\ fp.frames[s] # NoFrames) =>
            fp[s].num_frames \in 2..HASH_NUM_IMAGES

\* distance() on two fingerprints read from a cache file whose num_frames
\* fields are 11: the index is past the end of SPATIAL_LUT.
C36_IndexPastTable ==
    /\ fp.d.called
    /\ fp.frames[fp.d.x] = NoFrames /\ fp.frames[fp.d.y] = NoFrames
    /\ LutIndex = HASH_NUM_IMAGES + 1
    /\ LutIndex \notin DOMAIN SPATIAL_LUT

\* distance() with a fingerprint read from a cache file whose num_frames
\* field is 0: entry 0 of SPATIAL_LUT is read and the TEMPORAL_LUT index
\* wraps below 0.
C36_IndexZero ==
    /\ fp.d.called
    /\ LutIndex = 0
    /\ (LutIndex - 1) \notin DOMAIN TEMPORAL_LUT

(***************************************************************************)
(* Claims about ResolutionThunk::resolve (specification SpecResolve)       *)
(***************************************************************************)

\* The file whose contents the last choice keeps, and the files of the
\* other entries, which the trashing phase is to trash.
ContentsFile == EntryAt(ss.call.instr.contents_idx).filename
FilesToTrash == EntryFiles \ {ContentsFile}

\* The last choice failed to parse or to validate.
ChoiceRejected == ss.pc = "done" /\ ~ss.call.valid

\* The last choice is valid and the file whose contents are to be kept is
\* not there.
ContentsMissing ==
    ss.pc = "done" /\ ss.call.valid /\ ~ThunkPathExists(ss.fs0, ContentsFile)

\* The last choice is valid, the contents are to be moved, and the computed
\* destination exists and is not one of the files that will be trashed.
DestinationTaken ==
    /\ ss.pc = "done" /\ ss.call.valid /\ ss.call.need_move
    /\ ThunkPathExists(ss.fs0, ss.call.new_name)
    /\ ss.call.new_name \notin FilesToTrash

\* C38: resolve moves or deletes no file when the choice fails to parse or
\* validate, when the file whose contents are to be kept does not exist, or
\* when the computed destination exists and is not one of the entries that
\* will be trashed; and the contents file is never trashed.
C38_RejectedChoiceKeepsFiles ==
    /\ (ChoiceRejected \/ ContentsMissing \/ DestinationTaken) => ss.call.fs = ss.fs0
    /\ (ss.pc = "done" /\ ss.call.valid) => ContentsFile \notin ss.call.trashed

\* The part of C38 that holds in both versions: a choice that fails to
\* parse or validate, or whose contents file is missing, changes no file,
\* and the contents file is never trashed.
C38_RejectedOrMissing ==
    /\ (ChoiceRejected \/ ContentsMissing) => ss.call.fs = ss.fs0
    /\ (ss.pc = "done" /\ ss.call.valid) => ContentsFile \notin ss.call.trashed

\* The part of C38 that holds for the destination: the resolve of
\* vid_dup_finder_app, and Keep and Move of the library, change no file when
\* the destination is taken.
C38_DestinationTakenElsewhere ==
    (DestinationTaken /\ ss.call.instr.kind # "MoveAndRename") => ss.call.fs = ss.fs0

\* A MoveAndRename of the library whose destination is taken by a file that
\* will not be trashed: the call returns Ok, the other entries are in the
\* trash and the contents lie at the destination's " (1)" name.
C38_MovedNextToTakenDestination ==
    /\ DestinationTaken /\ ss.version = "library"
    /\ ss.call.res = "Ok"
    /\ ss.call.fs # ss.fs0
    /\ ss.call.trashed = FilesToTrash
    /\ ss.call.fs[ContentsFile] = NoData
    /\ ss.call.fs[[ss.call.new_name EXCEPT !.suffix = Suffixes[2]]] = ss.fs0[ContentsFile]

(***************************************************************************)
(* Claims about ZoomRange (specification SpecZoom)                         *)
(***************************************************************************)

\* What the zoom range invariant asks of a state: current within min..max
\* and a multiple of increment, a zoom_out that lowered current by one
\* increment unless it was at min, and no arithmetic that left the width.
ZoomRangeOk ==
    /\ ss.min <= ss.current /\ ss.current <= ss.max
    /\ ss.current % ss.increment = 0
    /\ ss.op = "zoom_out" =>
          ss.current = IF ss.prev = ss.min THEN ss.min ELSE ss.prev - ss.increment
    /\ ~ss.overflow

\* C39: for a ZoomRange built with parameters the assertions of new accept,
\* after any sequence of zoom_in and zoom_out min <= current <= max holds,
\* current stays a multiple of increment, zoom_out lowers current by exactly
\* one increment unless already at min, and no u32 subtraction underflows.
C39_ZoomRangeInvariant == ZoomRangeOk

\* The part of C39 that holds: with min = increment (the application builds
\* its one range with 50, 1000, 50, 50), and max + increment within the
\* width, the invariant holds.
C39_MinIsIncrement ==
    (ss.min = ss.increment /\ ss.max + ss.increment < ZoomWrap) => ZoomRangeOk

\* A zoom_out from above min that left current where it was: min is 0.
C39_ZoomOutStays ==
    /\ ss.op = "zoom_out" /\ ss.prev > ss.min /\ ss.current = ss.prev

\* A zoom_out that took current below min.
C39_ZoomOutBelowMin ==
    /\ ss.op = "zoom_out" /\ ss.current < ss.min

\* A zoom_out whose current - increment left the width: current is below
\* increment.
C39_ZoomOutUnderflow ==
    /\ ss.prev < ss.increment /\ ss.overflow

=============================================================================
